---- MODULE Spec2Model ----
(***************************************************************************)
(* Chunking and relevance-ranking engine of the documents chat backend:    *)
(*   web/app/utils/text_processing.py   (Text Segmenter)                   *)
(*   web/app/services/chunking_service.py (Assembler, Scorer, Selector)    *)
(*                                                                         *)
(* A Python str is a sequence of one-character strings.  A dict is the     *)
(* sequence of its items in insertion order (the order .items() yields).   *)
(* A relevance score is kept as the exact rational the code's float        *)
(* expression denotes, as an integer number of 1/(ScoreScale * n) units    *)
(* where n is len(query_words), or 1 when query_words is empty.            *)
(***************************************************************************)
EXTENDS Integers, Sequences, FiniteSets, TLC

VARIABLES
    pc,              \* position of the request: which call has returned
    documents_dict,  \* argument of chunk_documents_for_processing
    chunk_size,      \* argument chunk_size
    segments,        \* return value of split_content_intelligently
    chunks,          \* return value of chunk_documents_for_processing
    query,           \* argument query of find_most_relevant_chunks
    max_chunks,      \* argument max_chunks
    scored_chunks,   \* local scored_chunks after the sort
    branch,          \* which return statement find_most_relevant_chunks took
    relevant_chunks, \* return value of find_most_relevant_chunks
    formatted_parts, \* local formatted_parts of format_chunks_for_prompt
    context,         \* return value of format_chunks_for_prompt
    search_result,   \* return value of search_documents
    chat_result,     \* return value of process_chat_request
    scores,          \* local scores of find_most_relevant_chunks for one chunk
    project,         \* parameter project of the chat and search endpoints
    documents,       \* shared_state.documents, the document store
    document_status, \* processing_service.document_status
    files,           \* the files in the documents folder
    tasks,           \* the background tasks process_document_async
    request,         \* locals of the chat or search request being served
    response,        \* what the endpoint answered
    current_engine,  \* EngineManager.current_engine
    engine_result,   \* the last call of EngineManager.set_engine
    deleted_keys     \* history: keys deleted_keys and not uploaded again since

vars == <<pc, documents_dict, chunk_size, segments, chunks, query, max_chunks,
          scored_chunks, branch, relevant_chunks, formatted_parts, context,
          search_result, chat_result, scores, project, documents,
          document_status, files, tasks, request, response, current_engine,
          engine_result, deleted_keys>>

\* value of a variable that holds no return value yet
NoResult == [returned |-> FALSE]

\* the state of the running server: store, status record, folder, background
\* tasks, request in progress, engine
serverVars == <<project, documents, document_status, files, tasks, request,
                response, current_engine, engine_result, deleted_keys>>

\* a server with nothing stored and nothing in progress
ServerIdle ==
    /\ project = <<>>
    /\ documents = <<>>
    /\ document_status = {}
    /\ files = {}
    /\ tasks = <<>>
    /\ request = NoResult
    /\ response = NoResult
    /\ current_engine = "None"
    /\ engine_result = NoResult
    /\ deleted_keys = {}

\* no call of the chunking engine in progress
CoreIdle ==
    /\ pc = "idle"
    /\ documents_dict = <<>>
    /\ chunk_size = 0
    /\ segments = <<>>
    /\ chunks = <<>>
    /\ query = <<>>
    /\ max_chunks = 0
    /\ scored_chunks = <<>>
    /\ branch = "none"
    /\ relevant_chunks = <<>>
    /\ formatted_parts = <<>>
    /\ context = <<>>
    /\ search_result = NoResult
    /\ chat_result = NoResult
    /\ scores = <<>>

coreVars == <<pc, documents_dict, chunk_size, segments, chunks, query, max_chunks,
              scored_chunks, branch, relevant_chunks, formatted_parts, context,
              search_result, chat_result, scores>>

----------------------------------------------------------------------------
(* Bounds of the model *)

MaxLen == 6        \* longest document content enumerated for the Segmenter
MaxChunkSize == 4  \* largest chunk_size enumerated for the Segmenter
PairLen == 4       \* longest content of each document of a two-document mapping

----------------------------------------------------------------------------
(* Python str primitives *)

Whitespace == {" ", "\n", "\t"}
Punct == {".", "!", "?"}

IsWs(c) == c \in Whitespace

Min(a, b) == IF a <= b THEN a ELSE b

SetMin(S) == CHOOSE x \in S : \A y \in S : x <= y
\* the largest element, found as the smallest of the negated elements
SetMax(S) == 0 - SetMin({0 - x : x \in S})

\* the k-th smallest element of a set of integers
Kth(S, k) == CHOOSE x \in S : Cardinality({y \in S : y < x}) = k - 1

\* s[from:] with a 1-based first index
Tail_from(s, from) == SubSeq(s, from, Len(s))

\* str.strip(): whitespace removed from both ends
strip(s) ==
    LET keep == {i \in 1..Len(s) : ~IsWs(s[i])}
    IN  IF keep = {} THEN <<>> ELSE SubSeq(s, SetMin(keep), SetMax(keep))

\* str.split(): the maximal runs of non-whitespace characters, in order
split(s) ==
    LET starts == {i \in 1..Len(s) : ~IsWs(s[i]) /\ (i = 1 \/ IsWs(s[i-1]))}
        ends   == {i \in 1..Len(s) : ~IsWs(s[i]) /\ (i = Len(s) \/ IsWs(s[i+1]))}
    IN  [k \in 1..Cardinality(starts) |-> SubSeq(s, Kth(starts, k), Kth(ends, k))]

\* sub in s
Contains(s, sub) ==
    \E i \in 1..(Len(s) - Len(sub) + 1) : SubSeq(s, i, i + Len(sub) - 1) = sub

\* content.split('\n\n'): cut at each leftmost non-overlapping separator
RECURSIVE split_sep(_, _)
split_sep(s, sep) ==
    LET at == {i \in 1..(Len(s) - Len(sep) + 1) : SubSeq(s, i, i + Len(sep) - 1) = sep}
    IN  IF at = {} THEN <<s>>
        ELSE <<SubSeq(s, 1, SetMin(at) - 1)>>
             \o split_sep(Tail_from(s, SetMin(at) + Len(sep)), sep)

\* last index of the run of characters of class cls that starts at i
RunEnd(s, i, cls) ==
    SetMax({j \in i..Len(s) : \A k \in i..j : s[k] \in cls})

\* end of the match of [.!?]+\s+ that starts at i, 0 when there is none
SentenceEndMatch(s, i) ==
    IF s[i] \notin Punct THEN 0
    ELSE LET p == RunEnd(s, i, Punct)
         IN  IF p < Len(s) /\ IsWs(s[p+1]) THEN RunEnd(s, p + 1, Whitespace) ELSE 0

\* re.split(r'([.!?]+\s+)', text): pieces and captured separators alternate
RECURSIVE re_split_sentences(_)
re_split_sentences(s) ==
    LET at == {i \in 1..Len(s) : SentenceEndMatch(s, i) > 0}
    IN  IF at = {} THEN <<s>>
        ELSE LET i == SetMin(at)
                 e == SentenceEndMatch(s, i)
             IN  <<SubSeq(s, 1, i - 1), SubSeq(s, i, e)>>
                 \o re_split_sentences(Tail_from(s, e + 1))

\* "".join(parts)
RECURSIVE Concat(_)
Concat(parts) ==
    IF parts = <<>> THEN <<>> ELSE Head(parts) \o Concat(Tail(parts))

----------------------------------------------------------------------------
(* text_processing.py *)

\* the same loop body with the separator left out of the size test
WordStepNoSeparator(st, word, max_size) ==
    LET flush == Len(st.current_chunk) + Len(word) > max_size
                 /\ st.current_chunk # <<>>
        cur   == IF flush THEN <<>> ELSE st.current_chunk
    IN  [chunks |-> IF flush THEN Append(st.chunks, strip(st.current_chunk))
                    ELSE st.chunks,
         current_chunk |-> cur \o (IF cur # <<>> THEN <<" ">> ELSE <<>>) \o word]

\* the same loop body cutting a word longer than max_size down to max_size
WordStepCutting(st, word, max_size) ==
    LET piece == IF Len(word) > max_size THEN SubSeq(word, 1, max_size) ELSE word
        flush == Len(st.current_chunk) + Len(piece) + 1 > max_size
                 /\ st.current_chunk # <<>>
        cur   == IF flush THEN <<>> ELSE st.current_chunk
    IN  [chunks |-> IF flush THEN Append(st.chunks, strip(st.current_chunk))
                    ELSE st.chunks,
         current_chunk |-> cur \o (IF cur # <<>> THEN <<" ">> ELSE <<>>) \o piece]

\* body of the loop "for word in words" of split_by_words
WordStep(st, word, max_size) ==
    LET flush == Len(st.current_chunk) + Len(word) + 1 > max_size
                 /\ st.current_chunk # <<>>
        cur   == IF flush THEN <<>> ELSE st.current_chunk
    IN  [chunks |-> IF flush THEN Append(st.chunks, strip(st.current_chunk))
                    ELSE st.chunks,
         current_chunk |-> cur \o (IF cur # <<>> THEN <<" ">> ELSE <<>>) \o word]

\* for word in words
RECURSIVE WordLoop(_, _, _)
WordLoop(st, items, arg) ==
    IF items = <<>> THEN st
    ELSE WordLoop(WordStep(st, Head(items), arg), Tail(items), arg)

\* if current_chunk: chunks.append(current_chunk.strip()), after a loop
add_remaining(st) ==
    IF st.current_chunk # <<>>
    THEN Append(st.chunks, strip(st.current_chunk))
    ELSE st.chunks

split_by_words(text, max_size) ==
    add_remaining(WordLoop([chunks |-> <<>>, current_chunk |-> <<>>],
                           split(text), max_size))

\* sentence = sentences[i], plus sentences[i + 1] when it exists (1-based i)
sentence_at(sentences, i) ==
    IF i + 1 <= Len(sentences)
    THEN sentences[i] \o sentences[i+1]
    ELSE sentences[i]

\* the sentences built by "for i in range(0, len(sentences) - 1, 2)"
built_sentences(sentences) ==
    LET visited == {i \in 1..(Len(sentences) - 1) : i % 2 = 1}
    IN  [k \in 1..Cardinality(visited) |-> sentence_at(sentences, Kth(visited, k))]

\* if sentence.strip(): result.append(sentence.strip())
stripped_sentences(built) ==
    SelectSeq([k \in 1..Len(built) |-> strip(built[k])], LAMBDA x : x # <<>>)

split_by_sentences(text) ==
    stripped_sentences(built_sentences(re_split_sentences(text)))

\* body of the loop "for sentence in sentences"
SentenceStep(st, sentence, size) ==
    IF Len(st.temp_chunk) + Len(sentence) + 1 > size
    THEN LET saved == IF st.temp_chunk # <<>>
                      THEN Append(st.chunks, strip(st.temp_chunk))
                      ELSE st.chunks
         IN  IF Len(sentence) > size
             THEN [chunks |-> saved \o split_by_words(sentence, size),
                   temp_chunk |-> <<>>]
             ELSE [chunks |-> saved, temp_chunk |-> sentence]
    ELSE [chunks |-> st.chunks,
          temp_chunk |-> st.temp_chunk
                         \o (IF st.temp_chunk # <<>> THEN <<" ">> ELSE <<>>)
                         \o sentence]

\* for sentence in sentences
RECURSIVE SentenceLoop(_, _, _)
SentenceLoop(st, items, arg) ==
    IF items = <<>> THEN st
    ELSE SentenceLoop(SentenceStep(st, Head(items), arg), Tail(items), arg)

\* if temp_chunk: current_chunk = temp_chunk (current_chunk is "" before it)
after_sentences(st) == [chunks |-> st.chunks, current_chunk |-> st.temp_chunk]

\* body of the loop "for paragraph in paragraphs"
ParagraphStep(st, paragraph, size) ==
    IF Len(st.current_chunk) + Len(paragraph) + 2 > size
    THEN LET saved == IF st.current_chunk # <<>>
                      THEN Append(st.chunks, strip(st.current_chunk))
                      ELSE st.chunks
         IN  IF Len(paragraph) > size
             THEN after_sentences(
                      SentenceLoop([chunks |-> saved, temp_chunk |-> <<>>],
                                   split_by_sentences(paragraph), size))
             ELSE [chunks |-> saved, current_chunk |-> paragraph]
    ELSE [chunks |-> st.chunks,
          current_chunk |-> st.current_chunk
                            \o (IF st.current_chunk # <<>> THEN <<"\n", "\n">> ELSE <<>>)
                            \o paragraph]

\* for paragraph in paragraphs
RECURSIVE ParagraphLoop(_, _, _)
ParagraphLoop(st, items, arg) ==
    IF items = <<>> THEN st
    ELSE ParagraphLoop(ParagraphStep(st, Head(items), arg), Tail(items), arg)

\* paragraphs = content.split('\n\n') is computed once, before the loop
split_content_intelligently(content, size) ==
    IF Len(content) <= size THEN <<content>>
    ELSE CHOOSE result \in
             {add_remaining(ParagraphLoop([chunks |-> <<>>, current_chunk |-> <<>>],
                                          paragraphs, size)) :
                 paragraphs \in {split_sep(content, <<"\n", "\n">>)}} : TRUE

----------------------------------------------------------------------------
(* chunking_service.py: chunk_documents_for_processing *)

Chunk(filename, content, i, total) ==
    [filename |-> filename, content |-> content, chunk_index |-> i,
     total_chunks |-> total, char_count |-> Len(content)]

\* the same numbering from 0, as enumerate(document_chunks) would give
enumerate_chunks_from_zero(filename, pieces) ==
    [i \in 1..Len(pieces) |-> Chunk(filename, pieces[i], i - 1, Len(pieces))]

\* for i, chunk_content in enumerate(document_chunks, 1): chunks.append({...})
enumerate_chunks(filename, pieces) ==
    [i \in 1..Len(pieces) |-> Chunk(filename, pieces[i], i, Len(pieces))]

\* the same, with the content of a small document stripped like a segment
document_chunks_stripped(doc, size) ==
    IF Len(doc.content) <= size
    THEN <<Chunk(doc.filename, strip(doc.content), 1, 1)>>
    ELSE enumerate_chunks(doc.filename, split_content_intelligently(doc.content, size))

\* the same, appending nothing for a document with empty content
document_chunks_skip_empty(doc, size) ==
    IF doc.content = <<>> THEN <<>>
    ELSE IF Len(doc.content) <= size
    THEN <<Chunk(doc.filename, doc.content, 1, 1)>>
    ELSE enumerate_chunks(doc.filename, split_content_intelligently(doc.content, size))

\* the chunks one item of documents_dict appends
document_chunks(doc, size) ==
    IF Len(doc.content) <= size
    THEN <<Chunk(doc.filename, doc.content, 1, 1)>>
    ELSE enumerate_chunks(doc.filename, split_content_intelligently(doc.content, size))

\* the same, with a placeholder chunk appended for a mapping with no documents
RECURSIVE chunk_documents_placeholder(_, _)
chunk_documents_placeholder(docs, size) ==
    IF docs = <<>> THEN <<Chunk(<<>>, <<>>, 1, 1)>>
    ELSE document_chunks(Head(docs), size)
         \o (IF Tail(docs) = <<>> THEN <<>>
             ELSE chunk_documents_placeholder(Tail(docs), size))

RECURSIVE chunk_documents_for_processing(_, _)
chunk_documents_for_processing(docs, size) ==
    IF docs = <<>> THEN <<>>
    ELSE document_chunks(Head(docs), size)
         \o chunk_documents_for_processing(Tail(docs), size)

----------------------------------------------------------------------------
(* chunking_service.py: find_most_relevant_chunks *)

ScoreScale == 10000        \* one score unit is 1/(ScoreScale * n)
ExactWeight == 2           \* exact_score * 2.0
PartialIncrement == 5000   \* partial_score += 0.5
PhraseIncrement == 3000    \* phrase_score += 0.3
LengthBonusCap == 2000     \* min(..., 0.2)
FallbackThreshold == 1000  \* scored_chunks[0][0] < 0.1
MinWordLen == 2            \* if len(word) > 2
SEARCH_CHUNK_SIZE == 8000  \* config.py: chunk size of search_documents
MAX_CHUNKS_PER_QUERY == 5  \* config.py: default of max_chunks and max_results

UpperCase == <<"A", "B", "C", "D", "E", "F", "G", "H", "I", "J", "K", "L", "M",
               "N", "O", "P", "Q", "R", "S", "T", "U", "V", "W", "X", "Y", "Z">>
LowerCase == <<"a", "b", "c", "d", "e", "f", "g", "h", "i", "j", "k", "l", "m",
               "n", "o", "p", "q", "r", "s", "t", "u", "v", "w", "x", "y", "z">>

\* str.lower()
lower(s) ==
    SubSeq([i \in 1..Len(s) |->
               IF \E k \in 1..Len(UpperCase) : UpperCase[k] = s[i]
               THEN LowerCase[CHOOSE k \in 1..Len(UpperCase) : UpperCase[k] = s[i]]
               ELSE s[i]],
           1, Len(s))

\* the characters of '.,!?;:"()[]{}'
TokenPunct == {".", ",", "!", "?", ";", ":", "\"", "(", ")", "[", "]", "{", "}"}

\* str.strip(chars)
strip_chars(s, chars) ==
    LET keep == {i \in 1..Len(s) : s[i] \notin chars}
    IN  IF keep = {} THEN <<>> ELSE SubSeq(s, SetMin(keep), SetMax(keep))

\* set(word.lower().strip(...) for word in query.split() if len(word) > 2)
query_words(q) ==
    LET words == split(q)
        kept == {words[i] : i \in {j \in 1..Len(words) : Len(words[j]) > MinWordLen}}
    IN  {strip_chars(word_lower, TokenPunct) : word_lower \in {lower(word) : word \in kept}}

\* set(word.strip(...) for word in content_lower.split() if len(word) > 2)
content_words(content_lower) ==
    LET words == split(content_lower)
        kept == {words[i] : i \in {j \in 1..Len(words) : Len(words[j]) > MinWordLen}}
    IN  {strip_chars(word, TokenPunct) : word \in kept}

\* number of iterations of "for x in S" in which the condition holds
RECURSIVE CountLoop(_, _)
CountLoop(S, cond) ==
    IF S = {} THEN 0
    ELSE LET x == CHOOSE y \in S : TRUE
         IN  (IF cond[x] THEN 1 ELSE 0) + CountLoop(S \ {x}, cond)

\* n of the score unit for a query
Units(q) == IF query_words(q) = {} THEN 1 ELSE Cardinality(query_words(q))

\* scores[0]: exact_score * 2.0
exact_term(qw, cw) ==
    IF qw # {} THEN ExactWeight * ScoreScale * Cardinality(qw \cap cw) ELSE 0

\* the same without the min: partial_score / len(query_words)
partial_term_uncapped(qw, cw) ==
    LET hits == CountLoop(qw \X cw,
                    [p \in qw \X cw |-> Contains(p[2], p[1]) \/ Contains(p[1], p[2])])
    IN  IF qw # {} THEN PartialIncrement * hits ELSE 0

\* scores[1]: partial_score after the min
partial_term(qw, cw) ==
    LET hits == CountLoop(qw \X cw,
                    [p \in qw \X cw |-> Contains(p[2], p[1]) \/ Contains(p[1], p[2])])
    IN  IF qw # {}
        THEN Min(PartialIncrement * hits, ScoreScale * Cardinality(qw))
        ELSE 0

\* the same with the gate on the number of query tokens
phrase_term_token_gate(q, qw, content_lower) ==
    LET hits == IF Cardinality(qw) > 1
                THEN CountLoop(qw, [w \in qw |-> Contains(content_lower, w)])
                ELSE 0
    IN  Min(PhraseIncrement * hits, ScoreScale)

\* scores[2]: phrase_score after the min, in units of 1/ScoreScale
phrase_term(q, qw, content_lower) ==
    LET hits == IF Len(split(q)) > 1
                THEN CountLoop(qw, [w \in qw |-> Contains(content_lower, w)])
                ELSE 0
    IN  Min(PhraseIncrement * hits, ScoreScale)

\* scores[3]: length_score, in units of 1/ScoreScale
length_term(content) == Min(Len(content), LengthBonusCap)

\* sum(scores) for one chunk, given its lowercased content and its words
sum_scores(content, content_lower, cw, q) ==
    LET qw == query_words(q)
        n == Units(q)
    IN  exact_term(qw, cw) + partial_term(qw, cw)
        + n * phrase_term(q, qw, content_lower) + n * length_term(content)

\* the list scores of one chunk after its four appends
scores_list(content, content_lower, cw, q) ==
    LET qw == query_words(q)
        n == Units(q)
    IN  <<exact_term(qw, cw), partial_term(qw, cw),
          n * phrase_term(q, qw, content_lower), n * length_term(content)>>

\* scores of one chunk; content_lower and content_words are computed once
scores_of(content, q) ==
    CHOOSE l \in
        {scores_list(content, content_lower, cw, q) :
            <<content_lower, cw>> \in {<<cl, content_words(cl)>> : cl \in {lower(content)}}} :
        TRUE

\* final_score of one chunk; content_lower and content_words are computed once
final_score(content, q) ==
    CHOOSE score \in
        {sum_scores(content, content_lower, cw, q) :
            <<content_lower, cw>> \in {<<cl, content_words(cl)>> : cl \in {lower(content)}}} :
        TRUE

\* The chunk texts and queries of the requests enumerated below.

\* a word of n characters that no query contains
Filler(n) == SubSeq([i \in 1..n |-> "x"], 1, n)

\* "The cat sat."
TextCatSat == <<"T", "h", "e", " ", "c", "a", "t", " ", "s", "a", "t", ".">>
\* 999 characters: a length bonus just under 0.1
TextBelow == Filler(FallbackThreshold - 1)
\* 1000 characters: a length bonus of exactly 0.1
TextAtThreshold == Filler(FallbackThreshold)

ContentPool == {TextCatSat, TextBelow, TextAtThreshold}

QueryPool == {
    <<"c", "a", "t">>,                                   \* "cat"
    <<"c", "a", "t", "s">>,                              \* "cats"
    <<"C", "a", "t", " ", "s", "a", "t", "?">>,          \* "Cat sat?"
    <<"i", "s", " ", "c", "a", "t">>,                    \* "is cat"
    <<"i", "s", " ", "i", "t">>,                         \* "is it"
    <<"z", "e", "b", "r", "a">>,                         \* "zebra"
    <<".", ".", ".">> }                                  \* "..."

\* final_score tabulated over the enumerated texts and queries
ScoreTable ==
    {[content |-> c, query |-> q, score |-> final_score(c, q)] :
        c \in ContentPool \cup {Filler(SEARCH_CHUNK_SIZE - 1)}, q \in QueryPool}

\* final_score(content, q), read from the table when it is there
score_of(content, q) ==
    IF \E r \in ScoreTable : r.content = content /\ r.query = q
    THEN (CHOOSE r \in ScoreTable : r.content = content /\ r.query = q).score
    ELSE final_score(content, q)

\* body of the loop "for chunk in chunks": scored_chunks.append(...)
ScoreStep(scored, chunk, q) ==
    Append(scored, [score |-> score_of(chunk.content, q), chunk |-> chunk])

\* for chunk in chunks
RECURSIVE ScoreLoop(_, _, _)
ScoreLoop(st, items, arg) ==
    IF items = <<>> THEN st
    ELSE ScoreLoop(ScoreStep(st, Head(items), arg), Tail(items), arg)

\* the same order with entries of equal score in reverse list order
sort_descending_unstable(scored) ==
    LET ahead(i) == {j \in 1..Len(scored) :
                        \/ scored[j].score > scored[i].score
                        \/ scored[j].score = scored[i].score /\ j > i}
    IN  [k \in 1..Len(scored) |->
            scored[CHOOSE i \in 1..Len(scored) : Cardinality(ahead(i)) = k - 1]]

\* scored_chunks.sort(key=lambda x: x[0], reverse=True): list.sort is stable,
\* so an entry comes after the entries of higher score and after the entries
\* of equal score that precede it in the list
sort_descending(scored) ==
    LET ahead(i) == {j \in 1..Len(scored) :
                        \/ scored[j].score > scored[i].score
                        \/ scored[j].score = scored[i].score /\ j < i}
    IN  [k \in 1..Len(scored) |->
            scored[CHOOSE i \in 1..Len(scored) : Cardinality(ahead(i)) = k - 1]]

\* seq[:n]
slice_to(seq, n) ==
    IF n >= 0 THEN SubSeq(seq, 1, Min(n, Len(seq)))
    ELSE SubSeq(seq, 1, IF Len(seq) + n > 0 THEN Len(seq) + n ELSE 0)

\* the same test letting a top score of exactly 0.1 fall back
at_or_below_threshold(top_score, n) == top_score <= FallbackThreshold * n

\* the test that selects the fallback return
below_threshold(top_score, n) == top_score < FallbackThreshold * n

\* body of the fallback loop "for _, chunk in scored_chunks", break included
FallbackStep(st, entry, max) ==
    IF st.stopped \/ entry.chunk.filename \in st.seen_docs THEN st
    ELSE [fallback_chunks |-> Append(st.fallback_chunks, entry.chunk),
          seen_docs |-> st.seen_docs \cup {entry.chunk.filename},
          stopped |-> Len(st.fallback_chunks) + 1 >= max]

\* for _, chunk in scored_chunks
RECURSIVE FallbackLoop(_, _, _)
FallbackLoop(st, items, arg) ==
    IF items = <<>> THEN st
    ELSE FallbackLoop(FallbackStep(st, Head(items), arg), Tail(items), arg)

\* the same return keeping one entry too many
top_chunks_one_more(sorted, max) ==
    LET kept == slice_to(sorted, max + 1)
    IN  [i \in 1..Len(kept) |-> kept[i].chunk]

\* the normal return: [chunk for score, chunk in scored_chunks[:max_chunks]]
top_chunks(sorted, max) ==
    LET kept == slice_to(sorted, max)
    IN  [i \in 1..Len(kept) |-> kept[i].chunk]

\* the two return statements that follow the sort
select_chunks(sorted, q, max) ==
    IF sorted = <<>> \/ below_threshold(sorted[1].score, Units(q))
    THEN [scored_chunks |-> sorted, branch |-> "fallback",
          result |-> FallbackLoop([fallback_chunks |-> <<>>, seen_docs |-> {},
                                   stopped |-> FALSE],
                                  sorted, max).fallback_chunks]
    ELSE [scored_chunks |-> sorted, branch |-> "normal",
          result |-> top_chunks(sorted, max)]

\* the locals and the return value of find_most_relevant_chunks: the chunks
\* are scored, the scored list is sorted, and one of the returns is taken
find_most_relevant_chunks(chunk_list, q, max) ==
    IF chunk_list = <<>>
    THEN [scored_chunks |-> <<>>, branch |-> "empty", result |-> <<>>]
    ELSE CHOOSE r \in {select_chunks(sorted, q, max) :
                          sorted \in {sort_descending(scored) :
                                         scored \in {ScoreLoop(<<>>, chunk_list, q)}}} : TRUE

----------------------------------------------------------------------------
(* chunking_service.py: format_chunks_for_prompt *)

\* "No relevant document content found."
NoContentFound ==
    <<"N", "o", " ", "r", "e", "l", "e", "v", "a", "n", "t", " ", "d", "o", "c", "u", "m", "e", "n", "t", " ", "c", "o", "n", "t", "e", "n", "t", " ", "f", "o", "u", "n", "d", ".">>

RuleWidth == 60  \* "=" * 60

\* "=" * 60
Rule == [i \in 1..RuleWidth |-> "="]

DecimalDigits == <<"0", "1", "2", "3", "4", "5", "6", "7", "8", "9">>

\* str(n) of an int, as an f-string renders it
RECURSIVE str_int(_)
str_int(n) ==
    IF n < 0 THEN <<"-">> \o str_int(0 - n)
    ELSE IF n < 10 THEN <<DecimalDigits[n + 1]>>
    ELSE str_int(n \div 10) \o <<DecimalDigits[(n % 10) + 1]>>

\* the same header with the part marker on every chunk
header_always_part(chunk) ==
    <<"[", "D", "o", "c", "u", "m", "e", "n", "t", ":", " ">> \o chunk.filename
    \o <<" ", "-", " ", "P", "a", "r", "t", " ">> \o str_int(chunk.chunk_index)
        \o <<"/">> \o str_int(chunk.total_chunks)
    \o <<"]", " ", "(">> \o str_int(chunk.char_count) \o <<" ", "c", "h", "a", "r", "s", ")">>

\* header of one chunk: "[Document: <filename>", " - Part <i>/<total>" when
\* total_chunks > 1, "] (<char_count> chars)"
header(chunk) ==
    <<"[", "D", "o", "c", "u", "m", "e", "n", "t", ":", " ">> \o chunk.filename
    \o (IF chunk.total_chunks > 1
        THEN <<" ", "-", " ", "P", "a", "r", "t", " ">> \o str_int(chunk.chunk_index)
             \o <<"/">> \o str_int(chunk.total_chunks)
        ELSE <<>>)
    \o <<"]", " ", "(">> \o str_int(chunk.char_count) \o <<" ", "c", "h", "a", "r", "s", ")">>

\* f"{header}\n{chunk['content']}"
formatted_part(chunk) == header(chunk) \o <<"\n">> \o chunk.content

\* sep.join(parts)
RECURSIVE join(_, _)
join(sep, parts) ==
    IF parts = <<>> THEN <<>>
    ELSE IF Len(parts) = 1 THEN parts[1]
    ELSE parts[1] \o sep \o join(sep, Tail(parts))

\* the list formatted_parts after the loop "for chunk in chunks"
format_parts(chunk_list) ==
    [k \in 1..Len(chunk_list) |-> formatted_part(chunk_list[k])]

\* the same return made of the chunk texts alone
format_chunks_bare(chunk_list) ==
    IF chunk_list = <<>> THEN NoContentFound
    ELSE join(<<"\n", "\n">>, [k \in 1..Len(chunk_list) |-> chunk_list[k].content])

\* the same return with the parts of earlier calls kept in the list
format_chunks_accumulating(chunk_list) ==
    IF chunk_list = <<>> THEN NoContentFound
    ELSE <<"\n", "\n">> \o Rule
            \o join(<<"\n", "\n">>, formatted_parts \o format_parts(chunk_list))

\* the return value: the fixed text for no chunks, else
\* "\n\n" + "="*60 + "\n\n".join(formatted_parts)
format_chunks_for_prompt(chunk_list) ==
    IF chunk_list = <<>> THEN NoContentFound
    ELSE <<"\n", "\n">> \o Rule \o join(<<"\n", "\n">>, format_parts(chunk_list))

----------------------------------------------------------------------------
(* chunking_service.py: search_documents *)

PreviewLength == 500       \* chunk["content"][:500]

\* one entry of the list "chunks" of the result
search_entry(chunk) ==
    [filename |-> chunk.filename,
     chunk_index |-> chunk.chunk_index,
     total_chunks |-> chunk.total_chunks,
     char_count |-> chunk.char_count,
     preview |-> IF Len(chunk.content) > PreviewLength
                 THEN slice_to(chunk.content, PreviewLength) \o <<".", ".", ".">>
                 ELSE chunk.content,
     full_content |-> chunk.content]

\* the same result counting the chunks asked for instead of those found
search_result_of_asked(q, all_chunks, relevant, max_results) ==
    IF all_chunks = <<>>
    THEN [query |-> q, chunks |-> <<>>, total_found |-> 0, total_available |-> 0]
    ELSE [query |-> q,
          chunks |-> [k \in 1..Len(relevant) |-> search_entry(relevant[k])],
          total_found |-> max_results,
          total_available |-> Len(all_chunks)]

\* the dict search_documents returns, from its locals all_chunks and
\* relevant_chunks
search_result_of(q, all_chunks, relevant, max_results) ==
    IF all_chunks = <<>>
    THEN [query |-> q, chunks |-> <<>>, total_found |-> 0, total_available |-> 0]
    ELSE [query |-> q,
          chunks |-> [k \in 1..Len(relevant) |-> search_entry(relevant[k])],
          total_found |-> Len(relevant),
          total_available |-> Len(all_chunks)]

----------------------------------------------------------------------------
(* chat_service.py: process_chat_request *)

ChatChunkSize == 6000  \* chunk_documents_for_processing(documents, chunk_size=6000)
ChatMaxChunks == 3     \* find_most_relevant_chunks(all_chunks, query, max_chunks=3)

\* the prompt built when there are no documents
general_prompt(q) ==
    <<"Y", "o", "u", " ", "a", "r", "e", " ", "a", " ", "h", "e", "l", "p",
      "f", "u", "l", " ", "A", "I", " ", "a", "s", "s", "i", "s", "t", "a",
      "n", "t", ".", " ", "P", "l", "e", "a", "s", "e", " ", "p", "r", "o",
      "v", "i", "d", "e", " ", "a", " ", "c", "l", "e", "a", "r", ",", " ",
      "a", "c", "c", "u", "r", "a", "t", "e", ",", " ", "a", "n", "d", " ",
      "h", "e", "l", "p", "f", "u", "l", " ", "r", "e", "s", "p", "o", "n",
      "s", "e", " ", "t", "o", " ", "t", "h", "e", " ", "f", "o", "l", "l",
      "o", "w", "i", "n", "g", " ", "q", "u", "e", "s", "t", "i", "o", "n",
      " ", "o", "r", " ", "r", "e", "q", "u", "e", "s", "t", ".", "\n", "\n",
      "Q", "u", "e", "s", "t", "i", "o", "n", ":", " ">>
    \o q \o <<"\n", "\n", "A", "n", "s", "w", "e", "r", ":">>

\* the ways the call to the inference server ends: the four returns
InferenceOutcomes == {"success", "timeout", "request_exception", "exception"}

\* context_info in the branch with documents
document_context_info(all_chunks, relevant, ctx) ==
    [mode |-> "document_chat",
     chunks_processed |-> Len(relevant),
     total_chunks_available |-> Len(all_chunks),
     context_length |-> Len(ctx)]

\* context_info in the branch without documents
general_context_info(q) ==
    [mode |-> "general_chat",
     chunks_processed |-> 0,
     total_chunks_available |-> 0,
     context_length |-> Len(general_prompt(q))]

\* the fields of the returned dict that do not come from the inference
\* server: success and **context_info
chat_return(outcome, context_info) ==
    [success |-> outcome = "success",
     mode |-> context_info.mode,
     chunks_processed |-> context_info.chunks_processed,
     total_chunks_available |-> context_info.total_chunks_available,
     context_length |-> context_info.context_length]

----------------------------------------------------------------------------
(* shared_state.py, and the project filter of routers/chat.py, *)
(* routers/search.py and routers/chat_history.py                *)

\* documents.keys()
dict_keys(d) == {d[i].filename : i \in 1..Len(d)}

\* d[key]
dict_get(d, key) == (CHOOSE item \in {d[i] : i \in 1..Len(d)} : item.filename = key).content

\* del d[key]
dict_del(d, key) == SelectSeq(d, LAMBDA item : item.filename # key)

\* d[key] = value: a present key keeps its place, a new one goes last
dict_set(d, key, value) ==
    IF key \in dict_keys(d)
    THEN [i \in 1..Len(d) |-> IF d[i].filename = key
                               THEN [filename |-> key, content |-> value]
                               ELSE d[i]]
    ELSE Append(d, [filename |-> key, content |-> value])

\* s.startswith(prefix)
startswith(s, prefix) ==
    Len(s) >= Len(prefix) /\ SubSeq(s, 1, Len(prefix)) = prefix

\* "/" in key
has_slash(key) == \E i \in 1..Len(key) : key[i] = "/"

\* key.split("/", 1)[1] if "/" in key else key
filename_of_key(key) ==
    IF has_slash(key)
    THEN Tail_from(key, SetMin({i \in 1..Len(key) : key[i] = "/"}) + 1)
    ELSE key

ALL_PROJECTS == <<"a", "l", "l">>                       \* "all"
DEFAULT_PROJECT_NAME == <<"g", "l", "o", "b", "a", "l">>  \* config.py

\* {key: value for key, value in documents.items() if "/" not in key}
global_docs(docs) == SelectSeq(docs, LAMBDA item : ~has_slash(item.filename))

\* {key: value ... if key.startswith(project_prefix)}
project_docs(docs, name) ==
    SelectSeq(docs, LAMBDA item : startswith(item.filename, name \o <<"/">>))

\* the same loop body leaving the global version in place
MergeStepKeepGlobal(filtered, item) ==
    dict_set(filtered, item.filename, item.content)

\* body of "for key, value in project_docs.items()"
MergeStep(filtered, item) ==
    dict_set(IF filename_of_key(item.filename) \in dict_keys(filtered)
             THEN dict_del(filtered, filename_of_key(item.filename))
             ELSE filtered,
             item.filename, item.content)

\* for key, value in project_docs.items()
RECURSIVE MergeLoop(_, _)
MergeLoop(filtered, items) ==
    IF items = <<>> THEN filtered
    ELSE MergeLoop(MergeStep(filtered, Head(items)), Tail(items))

\* the mapping the endpoint passes on, from the store and the parameter project
filtered_documents(docs, name) ==
    IF name = ALL_PROJECTS THEN docs
    ELSE IF name = DEFAULT_PROJECT_NAME THEN global_docs(docs)
    ELSE MergeLoop(global_docs(docs), project_docs(docs, name))

\* "timed out", the text the endpoint looks for in the error
TimedOut == <<"t", "i", "m", "e", "d", " ", "o", "u", "t">>

\* the ways the inference request fails, with str(e) for the two handlers
\* that put it in the error: "Connection refused", and
\* "[Errno 110] Connection timed out" of a connection that was never made
ErrorMessages == {
    <<"C", "o", "n", "n", "e", "c", "t", "i", "o", "n", " ", "r", "e", "f",
      "u", "s", "e", "d">>,
    <<"[", "E", "r", "r", "n", "o", " ", "1", "1", "0", "]", " ", "C", "o",
      "n", "n", "e", "c", "t", "i", "o", "n", " ", "t", "i", "m", "e", "d",
      " ", "o", "u", "t">> }

InferenceResults ==
    {[outcome |-> "success", message |-> <<>>],
     [outcome |-> "timeout", message |-> <<>>]}
    \cup {[outcome |-> o, message |-> m] :
            o \in {"request_exception", "exception"}, m \in ErrorMessages}

\* result["error"] of process_chat_request
chat_error(outcome, message) ==
    IF outcome = "timeout"
    THEN <<"R", "e", "q", "u", "e", "s", "t", " ", "t", "i", "m", "e", "d", " ",
           "o", "u", "t", ".", " ", "T", "r", "y", " ", "a", "s", "k", "i", "n",
           "g", " ", "a", " ", "m", "o", "r", "e", " ", "s", "p", "e", "c", "i",
           "f", "i", "c", " ", "q", "u", "e", "s", "t", "i", "o", "n", ".">>
    ELSE IF outcome = "request_exception"
    THEN <<"E", "r", "r", "o", "r", " ", "c", "o", "m", "m", "u", "n", "i", "c",
           "a", "t", "i", "n", "g", " ", "w", "i", "t", "h", " ", "O", "l", "l",
           "a", "m", "a", ":", " ">>
         \o message
    ELSE IF outcome = "exception"
    THEN <<"U", "n", "e", "x", "p", "e", "c", "t", "e", "d", " ", "e", "r", "r",
           "o", "r", ":", " ">> \o message
    ELSE <<>>

\* the status the endpoint answers with for a result of process_chat_request
http_status(success, error) ==
    IF success THEN 200
    ELSE IF Contains(error, TimedOut) THEN 504
    ELSE 500

----------------------------------------------------------------------------
(* engine_manager.py: EngineManager *)

\* Python None as the value of current_engine; no model has this name
None == "None"

\* the names the Ollama server can list: three models and an empty name
InstalledNames == {"llama3.2:1b", "phi3.5:mini", "gemma2:2b", ""}

\* the names asked for: the three models, one that is never installed, and ""
RequestedNames == {"llama3.2:1b", "phi3.5:mini", "gemma2:2b", "llama3.2:3b", ""}

\* the ways GET /api/tags ends: a list of names, or an exception
TagsReplies ==
    {[outcome |-> "ok", names |-> N] : N \in SUBSET InstalledNames}
    \cup {[outcome |-> o, names |-> {}] :
            o \in {"timeout", "request_exception", "exception"}}

\* the ways POST /api/generate of the test prompt ends
GenerateReplies ==
    {"response", "empty_response", "timeout", "request_exception", "exception"}

\* [name for name in models if name]
non_empty_names(names) == {name \in names : name # ""}

\* get_local_models: the names, [] on requests.RequestException (Timeout is
\* one), the exception itself on any other
get_local_models(tags) ==
    IF tags.outcome = "ok"
    THEN [raised |-> FALSE, local_models |-> non_empty_names(tags.names)]
    ELSE IF tags.outcome \in {"timeout", "request_exception"}
    THEN [raised |-> FALSE, local_models |-> {}]
    ELSE [raised |-> TRUE, local_models |-> {}]

\* verify_engine_availability with current_engine = engine: what it returns
\* and what it leaves in current_engine
verify_engine_availability(engine, tags, generate) ==
    IF engine = None \/ engine = ""
    THEN [verified |-> FALSE, current_engine |-> engine]
    ELSE IF tags.outcome # "ok"
    THEN [verified |-> FALSE, current_engine |-> None]
    ELSE IF engine \notin non_empty_names(tags.names)
    THEN [verified |-> FALSE, current_engine |-> None]
    ELSE IF generate = "response"
    THEN [verified |-> TRUE, current_engine |-> engine]
    ELSE [verified |-> FALSE, current_engine |-> None]

\* what set_engine records about a call that returned
engine_return(success, model_name, local_models, old_engine) ==
    [returned |-> TRUE, success |-> success, model_name |-> model_name,
     local_models |-> local_models, engine_before |-> old_engine]

\* set_engine that keeps what the failed verification left in current_engine
set_engine_no_restore(engine, model_name, tags, verify_tags, generate) ==
    LET listed == get_local_models(tags)
        checked == verify_engine_availability(model_name, verify_tags, generate)
    IN  IF listed.raised
        THEN [current_engine |-> engine, result |-> NoResult]
        ELSE IF model_name \notin listed.local_models
        THEN [current_engine |-> engine,
              result |-> engine_return(FALSE, model_name, listed.local_models, engine)]
        ELSE [current_engine |-> checked.current_engine,
              result |-> engine_return(checked.verified, model_name,
                                       listed.local_models, engine)]

\* set_engine(model_name) with current_engine = engine: the new
\* current_engine and the returned dict; no dict when get_local_models raised
set_engine(engine, model_name, tags, verify_tags, generate) ==
    LET listed == get_local_models(tags)
        checked == verify_engine_availability(model_name, verify_tags, generate)
    IN  IF listed.raised
        THEN [current_engine |-> engine, result |-> NoResult]
        ELSE IF model_name \notin listed.local_models
        THEN [current_engine |-> engine,
              result |-> engine_return(FALSE, model_name, listed.local_models, engine)]
        ELSE IF checked.verified
        THEN [current_engine |-> checked.current_engine,
              result |-> engine_return(TRUE, model_name, listed.local_models, engine)]
        ELSE [current_engine |-> engine,
              result |-> engine_return(FALSE, model_name, listed.local_models, engine)]

----------------------------------------------------------------------------
(* Requests to the Segmenter and the Assembler *)

Alphabet == {"a", ".", " ", "\n"}

\* every str over Alphabet of at most n characters
Strings(n) == UNION {[1..k -> Alphabet] : k \in 0..n}

\* the characters of the contents of a two-document mapping
PairAlphabet == {"a", "\n"}

\* every str over PairAlphabet of at most n characters
PairStrings(n) == UNION {[1..k -> PairAlphabet] : k \in 0..n}

\* the keys of the mapping: "doc" and "p/doc"
DocName == <<"d", "o", "c">>
OtherDocName == <<"p", "/", "d", "o", "c">>

Document(filename, content) == [filename |-> filename, content |-> content]

\* the mappings passed as documents_dict: empty, one document, two documents
DocumentMappings ==
    {<<>>}
    \cup {<<Document(DocName, c)>> : c \in Strings(MaxLen)}
    \cup {<<Document(DocName, c), Document(OtherDocName, d)>> :
            c \in PairStrings(PairLen), d \in PairStrings(PairLen)}

InitChunk ==
    /\ pc = "start"
    /\ documents_dict \in DocumentMappings
    /\ chunk_size \in 0..MaxChunkSize
    /\ segments = <<>>
    /\ chunks = <<>>
    /\ query = <<>>
    /\ max_chunks = 0
    /\ scored_chunks = <<>>
    /\ branch = "none"
    /\ relevant_chunks = <<>>
    /\ formatted_parts = <<>>
    /\ context = <<>>
    /\ search_result = NoResult
    /\ chat_result = NoResult
    /\ scores = <<>>
    /\ ServerIdle

\* split_content_intelligently(content, chunk_size) on the content of a document
SplitContentIntelligently ==
    /\ pc = "start"
    /\ Len(documents_dict) = 1
    /\ segments' = split_content_intelligently(documents_dict[1].content, chunk_size)
    /\ pc' = "segmented"
    /\ UNCHANGED <<documents_dict, chunk_size, chunks, query, max_chunks,
                   scored_chunks, branch, relevant_chunks, formatted_parts, context,
                   search_result, chat_result>>
    /\ UNCHANGED <<scores, serverVars>>

\* chunk_documents_for_processing(documents_dict, chunk_size)
ChunkDocumentsForProcessing ==
    /\ pc = "start"
    /\ chunks' = chunk_documents_for_processing(documents_dict, chunk_size)
    /\ pc' = "assembled"
    /\ UNCHANGED <<documents_dict, chunk_size, segments, query, max_chunks,
                   scored_chunks, branch, relevant_chunks, formatted_parts, context,
                   search_result, chat_result>>
    /\ UNCHANGED <<scores, serverVars>>

NextChunk == SplitContentIntelligently \/ ChunkDocumentsForProcessing

SpecChunk == InitChunk /\ [][NextChunk]_vars

----------------------------------------------------------------------------
(* Requests to split_by_words *)

InitWords ==
    /\ pc = "start"
    /\ documents_dict \in {<<Document(DocName, c)>> : c \in Strings(MaxLen)}
    /\ chunk_size \in 0..MaxChunkSize
    /\ segments = <<>>
    /\ chunks = <<>>
    /\ query = <<>>
    /\ max_chunks = 0
    /\ scored_chunks = <<>>
    /\ branch = "none"
    /\ relevant_chunks = <<>>
    /\ formatted_parts = <<>>
    /\ context = <<>>
    /\ search_result = NoResult
    /\ chat_result = NoResult
    /\ scores = <<>>
    /\ ServerIdle

\* split_by_words(text, max_size) on the content of the document
SplitByWords ==
    /\ pc = "start"
    /\ segments' = split_by_words(documents_dict[1].content, chunk_size)
    /\ pc' = "words"
    /\ UNCHANGED <<documents_dict, chunk_size, chunks, query, max_chunks,
                   scored_chunks, branch, relevant_chunks, formatted_parts, context,
                   search_result, chat_result>>
    /\ UNCHANGED <<scores, serverVars>>

NextWords == SplitByWords

SpecWords == InitWords /\ [][NextWords]_vars

----------------------------------------------------------------------------
(* Requests to the Scorer and the Selector *)

MaxListLen == 3  \* longest chunk list passed to find_most_relevant_chunks
MaxBudget == 3   \* largest max_chunks passed to find_most_relevant_chunks

FileNames == <<
    <<"a", ".", "t", "x", "t">>,
    <<"b", ".", "t", "x", "t">>,
    <<"p", "/", "c", ".", "t", "x", "t">>,
    <<"p", "/", "d", ".", "t", "x", "t">>,
    <<"q", "/", "e", ".", "t", "x", "t">> >>

\* the chunk list chunk_documents_for_processing returns for documents whose
\* chunk texts are texts[1..k], a new document starting after each cut
ChunkList(texts, cuts) ==
    LET doc(i) == 1 + Cardinality({c \in cuts : c < i})
        first(i) == SetMin({j \in 1..i : doc(j) = doc(i)})
        total(i) == Cardinality({j \in 1..Len(texts) : doc(j) = doc(i)})
    IN  [i \in 1..Len(texts) |->
            Chunk(FileNames[doc(i)], texts[i], i - first(i) + 1, total(i))]

ChunkLists ==
    UNION {{ChunkList(texts, cuts) :
                texts \in [1..k -> ContentPool], cuts \in SUBSET (1..(k - 1))} :
           k \in 0..MaxListLen}

InitSelect ==
    /\ pc = "assembled"
    /\ documents_dict = <<>>
    /\ chunk_size = 0
    /\ segments = <<>>
    /\ chunks \in ChunkLists
    /\ query \in QueryPool
    /\ max_chunks \in 0..MaxBudget
    /\ scored_chunks = <<>>
    /\ branch = "none"
    /\ relevant_chunks = <<>>
    /\ formatted_parts = <<>>
    /\ context = <<>>
    /\ search_result = NoResult
    /\ chat_result = NoResult
    /\ scores = <<>>
    /\ ServerIdle

\* find_most_relevant_chunks(chunks, query, max_chunks)
FindMostRelevantChunks ==
    /\ pc = "assembled"
    /\ LET r == find_most_relevant_chunks(chunks, query, max_chunks)
       IN  /\ scored_chunks' = r.scored_chunks
           /\ branch' = r.branch
           /\ relevant_chunks' = r.result
    /\ pc' = "selected"
    /\ UNCHANGED <<documents_dict, chunk_size, segments, chunks, query, max_chunks,
                   formatted_parts, context, search_result, chat_result>>
    /\ UNCHANGED <<scores, serverVars>>

NextSelect == FindMostRelevantChunks

SpecSelect == InitSelect /\ [][NextSelect]_vars

----------------------------------------------------------------------------
(* Requests to the Scorer: one chunk, scored term by term *)

\* "the cat sat mat them cats sats mats scat": every word of the query below is a word of it, is part of three of
\* its words, and occurs in it
TextRich ==
    <<"t", "h", "e", " ", "c", "a", "t", " ", "s", "a", "t", " ", "m", "a",
      "t", " ", "t", "h", "e", "m", " ", "c", "a", "t", "s", " ", "s", "a",
      "t", "s", " ", "m", "a", "t", "s", " ", "s", "c", "a", "t">>
\* the same followed by a word of 2000 characters
TextRichLong == TextRich \o <<" ">> \o Filler(LengthBonusCap)

ScoreContents ==
    ContentPool \cup {<<>>, TextRich, TextRichLong, Filler(LengthBonusCap + 1)}

ScoreQueries ==
    QueryPool \cup {
        <<"t", "h", "e">>,                                   \* "the"
        <<"t", "h", "e", " ", "c", "a", "t", " ", "s", "a", "t", " ", "m", "a", "t">> }   \* "the cat sat mat"

InitScore ==
    /\ pc = "assembled"
    /\ documents_dict = <<>>
    /\ chunk_size = 0
    /\ segments = <<>>
    /\ chunks \in {<<Chunk(FileNames[1], c, 1, 1)>> : c \in ScoreContents}
    /\ query \in ScoreQueries
    /\ max_chunks = 0
    /\ scored_chunks = <<>>
    /\ branch = "none"
    /\ relevant_chunks = <<>>
    /\ formatted_parts = <<>>
    /\ context = <<>>
    /\ search_result = NoResult
    /\ chat_result = NoResult
    /\ scores = <<>>
    /\ ServerIdle

\* one iteration of "for chunk in chunks": the four appends to scores, then
\* scored_chunks.append((final_score, chunk))
ScoreChunk ==
    /\ pc = "assembled"
    /\ scores' = scores_of(chunks[1].content, query)
    /\ scored_chunks' = <<[score |-> scores'[1] + scores'[2] + scores'[3] + scores'[4],
                           chunk |-> chunks[1]]>>
    /\ pc' = "scored"
    /\ UNCHANGED <<documents_dict, chunk_size, segments, chunks, query, max_chunks,
                   branch, relevant_chunks, formatted_parts, context, search_result,
                   chat_result>>
    /\ UNCHANGED serverVars

NextScore == ScoreChunk

SpecScore == InitScore /\ [][NextScore]_vars

----------------------------------------------------------------------------
(* Requests to the Formatter *)

\* the chunk texts of the lists passed to format_chunks_for_prompt
FormatContentPool == {<<>>, TextCatSat, NoContentFound}

\* the lists passed as chunks
FormatChunkLists ==
    UNION {{ChunkList(texts, cuts) :
                texts \in [1..k -> FormatContentPool], cuts \in SUBSET (1..(k - 1))} :
           k \in 0..MaxListLen}

InitFormat ==
    /\ pc = "selected"
    /\ documents_dict = <<>>
    /\ chunk_size = 0
    /\ segments = <<>>
    /\ chunks = <<>>
    /\ query = <<>>
    /\ max_chunks = 0
    /\ scored_chunks = <<>>
    /\ branch = "none"
    /\ relevant_chunks \in FormatChunkLists
    /\ formatted_parts = <<>>
    /\ context = <<>>
    /\ search_result = NoResult
    /\ chat_result = NoResult
    /\ scores = <<>>
    /\ ServerIdle

\* context = format_chunks_for_prompt(relevant_chunks)
FormatChunksForPrompt ==
    /\ pc = "selected"
    /\ formatted_parts' = format_parts(relevant_chunks)
    /\ context' = format_chunks_for_prompt(relevant_chunks)
    /\ pc' = "formatted"
    /\ UNCHANGED <<documents_dict, chunk_size, segments, chunks, query, max_chunks,
                   scored_chunks, branch, relevant_chunks, search_result, chat_result>>
    /\ UNCHANGED <<scores, serverVars>>

NextFormat == FormatChunksForPrompt

SpecFormat == InitFormat /\ [][NextFormat]_vars

----------------------------------------------------------------------------
(* Requests to search_documents and process_chat_request *)

\* a single word longer than both chunk sizes, with no sentence terminator
TextUnsplittable == Filler(SEARCH_CHUNK_SIZE + 1)
\* two paragraphs: one just under SEARCH_CHUNK_SIZE, and "x"
TextTwoParagraphs == Filler(SEARCH_CHUNK_SIZE - 1) \o <<"\n", "\n", "x">>

\* the contents of the documents passed to the two operations
SearchContentPool ==
    {<<>>, TextCatSat, TextBelow, TextAtThreshold, TextUnsplittable, TextTwoParagraphs}

\* the mappings passed as documents: empty, one document, two documents
SearchMappings ==
    {<<>>}
    \cup {<<Document(FileNames[1], c)>> : c \in SearchContentPool}
    \cup {<<Document(FileNames[1], c), Document(FileNames[2], d)>> :
            c \in SearchContentPool, d \in SearchContentPool}

InitSearch ==
    /\ pc = "start"
    /\ documents_dict \in SearchMappings
    /\ chunk_size = 0
    /\ segments = <<>>
    /\ chunks = <<>>
    /\ query \in QueryPool
    /\ max_chunks \in 0..MaxBudget
    /\ scored_chunks = <<>>
    /\ branch = "none"
    /\ relevant_chunks = <<>>
    /\ formatted_parts = <<>>
    /\ context = <<>>
    /\ search_result = NoResult
    /\ chat_result = NoResult
    /\ scores = <<>>
    /\ ServerIdle

\* search_documents(documents_dict, query, max_results = max_chunks)
SearchDocuments ==
    /\ pc = "start"
    /\ chunks' = chunk_documents_for_processing(documents_dict, SEARCH_CHUNK_SIZE)
    /\ relevant_chunks' = IF chunks' = <<>> THEN <<>>
                          ELSE find_most_relevant_chunks(chunks', query, max_chunks).result
    /\ search_result' = search_result_of(query, chunks', relevant_chunks', max_chunks)
    /\ pc' = "searched"
    /\ UNCHANGED <<documents_dict, chunk_size, segments, query, max_chunks,
                   scored_chunks, branch, formatted_parts, context, chat_result>>
    /\ UNCHANGED <<scores, serverVars>>

\* process_chat_request(query, documents_dict) with documents, for each way
\* the call to the inference server can end
ChatWithDocuments ==
    /\ pc = "start"
    /\ documents_dict # <<>>
    /\ chunks' = chunk_documents_for_processing(documents_dict, ChatChunkSize)
    /\ relevant_chunks' = find_most_relevant_chunks(chunks', query, ChatMaxChunks).result
    /\ formatted_parts' = format_parts(relevant_chunks')
    /\ context' = format_chunks_for_prompt(relevant_chunks')
    /\ \E outcome \in InferenceOutcomes :
          chat_result' = chat_return(outcome,
                             document_context_info(chunks', relevant_chunks', context'))
    /\ pc' = "chatted"
    /\ UNCHANGED <<documents_dict, chunk_size, segments, query, max_chunks,
                   scored_chunks, branch, search_result>>
    /\ UNCHANGED <<scores, serverVars>>

\* process_chat_request(query, documents_dict) without documents
ChatWithoutDocuments ==
    /\ pc = "start"
    /\ documents_dict = <<>>
    /\ \E outcome \in InferenceOutcomes :
          chat_result' = chat_return(outcome, general_context_info(query))
    /\ pc' = "chatted"
    /\ UNCHANGED <<documents_dict, chunk_size, segments, chunks, query, max_chunks,
                   scored_chunks, branch, relevant_chunks, formatted_parts, context,
                   search_result>>
    /\ UNCHANGED <<scores, serverVars>>

ProcessChatRequest == ChatWithDocuments \/ ChatWithoutDocuments

NextSearch == SearchDocuments \/ ProcessChatRequest

SpecSearch == InitSearch /\ [][NextSearch]_vars

----------------------------------------------------------------------------
(* Requests that run the operations one after the other on small inputs *)

\* the mappings passed as documents_dict: no document, or one small document
PipelineMappings ==
    {<<>>} \cup {<<Document(DocName, c)>> : c \in {<<>>, TextCatSat}}

InitPipeline ==
    /\ pc = "start"
    /\ documents_dict \in PipelineMappings
    /\ chunk_size \in 0..MaxChunkSize
    /\ segments = <<>>
    /\ chunks = <<>>
    /\ query \in QueryPool
    /\ max_chunks \in 0..MaxBudget
    /\ scored_chunks = <<>>
    /\ branch = "none"
    /\ relevant_chunks = <<>>
    /\ formatted_parts = <<>>
    /\ context = <<>>
    /\ search_result = NoResult
    /\ chat_result = NoResult
    /\ scores = <<>>
    /\ ServerIdle

\* assemble, then select from the assembled chunks; or search
NextPipeline ==
    ChunkDocumentsForProcessing \/ FindMostRelevantChunks \/ SearchDocuments

SpecPipeline == InitPipeline /\ [][NextPipeline]_vars

----------------------------------------------------------------------------
(* Requests to the engine endpoints *)

\* the server after start-up: no engine, or one that start-up verified
InitEngine ==
    /\ CoreIdle
    /\ project = <<>>
    /\ documents = <<>>
    /\ document_status = {}
    /\ files = {}
    /\ tasks = <<>>
    /\ request = NoResult
    /\ response = NoResult
    /\ current_engine \in {None} \cup non_empty_names(InstalledNames)
    /\ engine_result = NoResult
    /\ deleted_keys = {}

\* POST /models/run: engine_manager.set_engine(name); every failure, and an
\* exception out of set_engine, is answered with status 500
SetEngine ==
    \E model_name \in RequestedNames, tags \in TagsReplies,
       verify_tags \in TagsReplies, generate \in GenerateReplies :
        LET r == set_engine(current_engine, model_name, tags, verify_tags, generate)
        IN  /\ current_engine' = r.current_engine
            /\ engine_result' = r.result
            /\ response' = [returned |-> TRUE,
                            status |-> IF r.result.returned /\ r.result.success
                                       THEN 200 ELSE 500]
            /\ UNCHANGED <<coreVars, project, documents, document_status, files,
                           tasks, request, deleted_keys>>

\* the ways DELETE /api/delete ends
DeleteReplies == {"status_200", "status_other", "request_exception"}

\* DELETE /models/{model_name}: a model that is listed is deactivated when it
\* is the active engine, then deleted on the server; the 404 raised for a
\* model that is not listed is caught by the handler's own except Exception
DeleteModel ==
    \E model_name \in RequestedNames, tags \in TagsReplies, deleted \in DeleteReplies :
        LET local_models == non_empty_names(tags.names)
            was_active == current_engine = model_name
        IN  /\ current_engine' = IF model_name \in local_models /\ was_active
                                  THEN None ELSE current_engine
            /\ response' = [returned |-> TRUE,
                            status |-> IF model_name \in local_models
                                          /\ deleted = "status_200"
                                       THEN 200 ELSE 500]
            /\ engine_result' = NoResult
            /\ UNCHANGED <<coreVars, project, documents, document_status, files,
                           tasks, request, deleted_keys>>

NextEngine == SetEngine \/ DeleteModel

SpecEngine == InitEngine /\ [][NextEngine]_vars

----------------------------------------------------------------------------
(* Requests to the chat and search endpoints over a store at rest *)

\* the keys of the store: two global documents, and documents of the
\* projects p, q and pp, three of them named like a global one
StoreKeys ==
    <<<<"a", ".", "t", "x", "t">>,
      <<"b", ".", "t", "x", "t">>,
      <<"p", "/", "a", ".", "t", "x", "t">>,
      <<"p", "/", "c", ".", "t", "x", "t">>,
      <<"q", "/", "a", ".", "t", "x", "t">>,
      <<"p", "p", "/", "b", ".", "t", "x", "t">>>>

\* each document holds "cat " and its own key
StoreContent(key) == <<"c", "a", "t", " ">> \o key

\* the items of the keys at the positions S, in the order of StoreKeys
StoreOf(S) ==
    [k \in 1..Cardinality(S) |->
        [filename |-> StoreKeys[Kth(S, k)], content |-> StoreContent(StoreKeys[Kth(S, k)])]]

\* the same items in the opposite order of insertion
Reversed(d) == [k \in 1..Len(d) |-> d[Len(d) + 1 - k]]

Stores ==
    {StoreOf(S) : S \in SUBSET (1..Len(StoreKeys))}
    \cup {Reversed(StoreOf(S)) : S \in SUBSET (1..Len(StoreKeys))}

\* the values of the parameter project: "all", "global", "p", "q", "x"
Projects == {ALL_PROJECTS, DEFAULT_PROJECT_NAME, <<"p">>, <<"q">>, <<"x">>}

InitRouter ==
    /\ pc = "idle"
    /\ documents_dict = <<>>
    /\ chunk_size = 0
    /\ segments = <<>>
    /\ chunks = <<>>
    /\ query = <<"c", "a", "t">>
    /\ max_chunks = MAX_CHUNKS_PER_QUERY
    /\ scored_chunks = <<>>
    /\ branch = "none"
    /\ relevant_chunks = <<>>
    /\ formatted_parts = <<>>
    /\ context = <<>>
    /\ search_result = NoResult
    /\ chat_result = NoResult
    /\ scores = <<>>
    /\ project \in Projects
    /\ documents \in Stores
    /\ document_status = {}
    /\ files = {}
    /\ tasks = <<>>
    /\ request = NoResult
    /\ response = NoResult
    /\ current_engine = None
    /\ engine_result = NoResult
    /\ deleted_keys = {}

\* the filter, process_chat_request and the status of the answer, as POST
\* /chat and POST /chats/{project_name}/{chat_id}/chat both do them
ChatRequest(endpoint) ==
    /\ documents_dict' = filtered_documents(documents, project)
    /\ chunks' = chunk_documents_for_processing(documents_dict', ChatChunkSize)
    /\ relevant_chunks' = IF documents_dict' = <<>> THEN <<>>
                          ELSE find_most_relevant_chunks(chunks', query, ChatMaxChunks).result
    /\ formatted_parts' = IF documents_dict' = <<>> THEN <<>>
                          ELSE format_parts(relevant_chunks')
    /\ context' = IF documents_dict' = <<>> THEN <<>>
                  ELSE format_chunks_for_prompt(relevant_chunks')
    /\ \E inference \in InferenceResults :
          /\ chat_result' =
                chat_return(inference.outcome,
                    IF documents_dict' = <<>> THEN general_context_info(query)
                    ELSE document_context_info(chunks', relevant_chunks', context'))
          /\ response' =
                [returned |-> TRUE, endpoint |-> endpoint,
                 inference |-> inference.outcome,
                 error |-> chat_error(inference.outcome, inference.message),
                 status |-> http_status(chat_result'.success,
                                chat_error(inference.outcome, inference.message))]
    /\ pc' = "chatted"
    /\ UNCHANGED <<chunk_size, segments, query, max_chunks, scored_chunks, branch,
                   search_result, scores, project, documents, document_status,
                   files, tasks, request, current_engine, engine_result, deleted_keys>>

\* POST /chat
Chat ==
    /\ pc = "idle"
    /\ ChatRequest("chat")

\* POST /chats/{project_name}/{chat_id}/chat with a chat session that exists
AddMessageToChat ==
    /\ pc = "idle"
    /\ ChatRequest("add_message_to_chat")

\* the same request for a chat session that does not exist: 404
AddMessageToMissingChat ==
    /\ pc = "idle"
    /\ response' = [returned |-> TRUE, endpoint |-> "add_message_to_chat",
                    inference |-> "none", error |-> <<>>, status |-> 404]
    /\ pc' = "refused"
    /\ UNCHANGED <<documents_dict, chunk_size, segments, chunks, query, max_chunks,
                   scored_chunks, branch, relevant_chunks, formatted_parts, context,
                   search_result, chat_result, scores, project, documents,
                   document_status, files, tasks, request, current_engine,
                   engine_result, deleted_keys>>

\* POST /search-chunks: search_chunks
PostSearchChunks ==
    /\ pc = "idle"
    /\ documents_dict' = filtered_documents(documents, project)
    /\ chunks' = chunk_documents_for_processing(documents_dict', SEARCH_CHUNK_SIZE)
    /\ relevant_chunks' = IF chunks' = <<>> THEN <<>>
                          ELSE find_most_relevant_chunks(chunks', query, max_chunks).result
    /\ search_result' = search_result_of(query, chunks', relevant_chunks', max_chunks)
    /\ response' = [returned |-> TRUE, endpoint |-> "search_chunks",
                    inference |-> "none", error |-> <<>>, status |-> 200]
    /\ pc' = "searched"
    /\ UNCHANGED <<chunk_size, segments, query, max_chunks, scored_chunks, branch,
                   formatted_parts, context, chat_result, scores, project, documents,
                   document_status, files, tasks, request, current_engine,
                   engine_result, deleted_keys>>

NextRouter == Chat \/ AddMessageToChat \/ AddMessageToMissingChat \/ PostSearchChunks

SpecRouter == InitRouter /\ [][NextRouter]_vars

----------------------------------------------------------------------------
(* processing_service.py and routers/documents.py: the life of a document.
   The handlers are coroutines without an await between their reads and
   their writes, so each is one step of the event loop;
   process_document_async runs in a worker thread (BackgroundTasks.add_task
   of a plain function), so each of its statements is a step of its own
   that the handlers and the other tasks interleave with.  document_status
   is held as the set of its entries: no operation reads its order. *)

MaxTasks == 2    \* background tasks queued or running at a time

\* the keys the uploads use: one global document, one of project "p"
ServerKeys == {<<"a", ".", "t", "x", "t">>, <<"p", "/", "a", ".", "t", "x", "t">>}

\* extract_text(filepath) for the file of a key that exists
FileText(key) == StoreContent(key)

\* key in document_status
status_keys(ds) == {r.filename : r \in ds}

\* document_status[key]
status_of(ds, key) == CHOOSE r \in ds : r.filename = key

\* document_status[key] = {"status": status, "progress": progress, ...}
status_put(ds, key, status, progress) ==
    {r \in ds : r.filename # key}
        \cup {[filename |-> key, status |-> status, progress |-> progress]}

\* initialize_document_processing_status(filename)
initialize_document_processing_status(ds, key) == status_put(ds, key, "pending", 0)

\* document_status[key]["status"] = status
status_set_status(ds, key, status) ==
    status_put(ds, key, status, status_of(ds, key).progress)

\* document_status[key]["progress"] = progress
status_set_progress(ds, key, progress) ==
    status_put(ds, key, status_of(ds, key).status, progress)

\* tasks without its i-th element
task_done(ts, i) == SubSeq(ts, 1, i - 1) \o SubSeq(ts, i + 1, Len(ts))

\* tasks with the i-th element at another line of process_document_async
task_at(ts, i, position) == [ts EXCEPT ![i].pc = position]

\* the state after a freshly built server with an empty documents folder
InitLifecycle ==
    /\ CoreIdle
    /\ ServerIdle

\* POST /upload of one file: the file is written (an existing one only with
\* overwrite), its status starts at pending and process_document_async is
\* added to the background tasks
Upload ==
    \E key \in ServerKeys, overwrite \in BOOLEAN :
        /\ Len(tasks) < MaxTasks
        /\ IF key \in files /\ ~overwrite
           THEN /\ response' = [returned |-> TRUE, endpoint |-> "upload",
                                status |-> 200, detail |-> "existing"]
                /\ UNCHANGED <<files, document_status, tasks, deleted_keys>>
           ELSE /\ files' = files \cup {key}
                /\ document_status' =
                      initialize_document_processing_status(document_status, key)
                /\ tasks' = Append(tasks, [doc_key |-> key, pc |-> "queued",
                                           text_content |-> <<>>])
                /\ deleted_keys' = deleted_keys \ {key}
                /\ response' = [returned |-> TRUE, endpoint |-> "upload",
                                status |-> 200, detail |-> "uploaded"]
        /\ UNCHANGED <<coreVars, project, documents, request, current_engine,
                       engine_result>>

\* process_document_async, lines 41-48: the status entry is made when it is
\* missing, then status "processing", progress 10
TaskStart ==
    \E i \in 1..Len(tasks) :
        /\ tasks[i].pc = "queued"
        /\ document_status' =
              LET key == tasks[i].doc_key
                  ds == IF key \in status_keys(document_status) THEN document_status
                        ELSE initialize_document_processing_status(document_status, key)
              IN  status_put(ds, key, "processing", 10)
        /\ tasks' = task_at(tasks, i, "started")
        /\ UNCHANGED <<coreVars, project, documents, files, request, response,
                       current_engine, engine_result, deleted_keys>>

\* lines 51-52: extract_text reads the file, progress 80; a file that is
\* gone raises in get_file_size_mb and the except branch (lines 63-74) sets
\* status "error", progress 0 and ends the task
TaskExtract ==
    \E i \in 1..Len(tasks) :
        /\ tasks[i].pc = "started"
        /\ IF tasks[i].doc_key \in files
           THEN /\ tasks' = [tasks EXCEPT ![i].pc = "extracted",
                                          ![i].text_content = FileText(tasks[i].doc_key)]
                /\ document_status' =
                      status_set_progress(document_status, tasks[i].doc_key, 80)
           ELSE /\ tasks' = task_done(tasks, i)
                /\ document_status' =
                      status_put(document_status, tasks[i].doc_key, "error", 0)
        /\ UNCHANGED <<coreVars, project, documents, files, request, response,
                       current_engine, engine_result, deleted_keys>>

\* line 55: set_document(doc_key, text_content)
TaskStore ==
    \E i \in 1..Len(tasks) :
        /\ tasks[i].pc = "extracted"
        /\ documents' = dict_set(documents, tasks[i].doc_key, tasks[i].text_content)
        /\ tasks' = task_at(tasks, i, "stored")
        /\ UNCHANGED <<coreVars, project, document_status, files, request, response,
                       current_engine, engine_result, deleted_keys>>

\* line 56: progress 100
TaskProgress ==
    \E i \in 1..Len(tasks) :
        /\ tasks[i].pc = "stored"
        /\ document_status' =
              status_set_progress(document_status, tasks[i].doc_key, 100)
        /\ tasks' = task_at(tasks, i, "progressed")
        /\ UNCHANGED <<coreVars, project, documents, files, request, response,
                       current_engine, engine_result, deleted_keys>>

\* line 57: status "completed"; the task ends
TaskComplete ==
    \E i \in 1..Len(tasks) :
        /\ tasks[i].pc = "progressed"
        /\ document_status' =
              status_set_status(document_status, tasks[i].doc_key, "completed")
        /\ tasks' = task_done(tasks, i)
        /\ UNCHANGED <<coreVars, project, documents, files, request, response,
                       current_engine, engine_result, deleted_keys>>

\* DELETE /documents/{doc_key}: 404 without the file; else the file is
\* removed and the key leaves the store; document_status is not touched
DeleteDocument ==
    \E key \in ServerKeys :
        /\ IF key \notin files
           THEN /\ response' = [returned |-> TRUE, endpoint |-> "delete_document",
                                status |-> 404, detail |-> "Document not found"]
                /\ UNCHANGED <<files, documents, deleted_keys>>
           ELSE /\ files' = files \ {key}
                /\ documents' = dict_del(documents, key)
                /\ deleted_keys' = deleted_keys \cup {key}
                /\ response' = [returned |-> TRUE, endpoint |-> "delete_document",
                                status |-> 200, detail |-> "deleted"]
        /\ UNCHANGED <<coreVars, project, document_status, tasks, request,
                       current_engine, engine_result>>

\* the keys POST /documents/{filename}/retry and /reprocess can name: the
\* path parameter holds no "/", and the file is looked up in DOCS_DIR
GlobalKeys == {key \in ServerKeys : ~has_slash(key)}

\* POST /documents/{filename}/retry: retry_document_processing resets the
\* status (404 without the file), the key leaves the store and
\* process_document_async is added to the background tasks
RetryDocumentProcessing ==
    \E filename \in GlobalKeys :
        /\ Len(tasks) < MaxTasks
        /\ IF filename \notin files
           THEN /\ response' = [returned |-> TRUE, endpoint |-> "retry",
                                status |-> 404, detail |-> "File not found"]
                /\ UNCHANGED <<document_status, documents, tasks>>
           ELSE /\ document_status' =
                      status_put(document_status, filename, "pending", 0)
                /\ documents' = dict_del(documents, filename)
                /\ tasks' = Append(tasks, [doc_key |-> filename, pc |-> "queued",
                                           text_content |-> <<>>])
                /\ response' = [returned |-> TRUE, endpoint |-> "retry",
                                status |-> 200, detail |-> "Retry started"]
        /\ UNCHANGED <<coreVars, project, files, request, current_engine,
                       engine_result, deleted_keys>>

\* POST /documents/{filename}/reprocess: 404 without the file; else the text
\* is extracted again and stored; document_status is not touched
ReprocessDocument ==
    \E filename \in GlobalKeys :
        /\ IF filename \notin files
           THEN /\ response' = [returned |-> TRUE, endpoint |-> "reprocess",
                                status |-> 404, detail |-> "Document file not found"]
                /\ UNCHANGED documents
           ELSE /\ documents' = dict_set(documents, filename, FileText(filename))
                /\ response' = [returned |-> TRUE, endpoint |-> "reprocess",
                                status |-> 200, detail |-> "reprocessed"]
        /\ UNCHANGED <<coreVars, project, document_status, files, tasks, request,
                       current_engine, engine_result, deleted_keys>>

NextLifecycle ==
    \/ Upload
    \/ TaskStart
    \/ TaskExtract
    \/ TaskStore
    \/ TaskProgress
    \/ TaskComplete
    \/ DeleteDocument
    \/ RetryDocumentProcessing
    \/ ReprocessDocument

SpecLifecycle == InitLifecycle /\ [][NextLifecycle]_vars

----------------------------------------------------------------------------
(* routers/chat.py, routers/search.py and shared_state.py: a request beside
   the background tasks.  get_documents() returns the module's dict itself,
   so what the request iterates is the store the worker threads write to:
   with project "all" the loop of chunk_documents_for_processing, otherwise
   the comprehensions of the filter.  An iteration of a dict is a sequence
   of next() calls; each raises RuntimeError when the dict's size is not
   the one it had when the iteration began, and else yields the item at its
   position with the value it has at that moment. *)

\* the iterations over documents.items() the request makes
Passes(name) ==
    IF name = ALL_PROJECTS \/ name = DEFAULT_PROJECT_NAME THEN 1 ELSE 2

\* the mapping the request works on, from the items its iterations yielded:
\* kept from the comprehension of project_docs, seen from the last iteration
iterated_documents(name, kept, seen) ==
    IF name = ALL_PROJECTS THEN seen
    ELSE IF name = DEFAULT_PROJECT_NAME THEN global_docs(seen)
    ELSE MergeLoop(global_docs(seen), project_docs(kept, name))

Idle == [pc |-> "idle"]

\* a server whose store was loaded from the documents folder at startup
InitSnapshot ==
    /\ pc = "idle"
    /\ documents_dict = <<>>
    /\ chunk_size = 0
    /\ segments = <<>>
    /\ chunks = <<>>
    /\ query = <<"c", "a", "t">>
    /\ max_chunks = MAX_CHUNKS_PER_QUERY
    /\ scored_chunks = <<>>
    /\ branch = "none"
    /\ relevant_chunks = <<>>
    /\ formatted_parts = <<>>
    /\ context = <<>>
    /\ search_result = NoResult
    /\ chat_result = NoResult
    /\ scores = <<>>
    /\ project \in {ALL_PROJECTS, DEFAULT_PROJECT_NAME, <<"p">>}
    /\ \E S \in SUBSET {k \in 1..Len(StoreKeys) : StoreKeys[k] \in ServerKeys} :
          /\ documents \in {StoreOf(S), Reversed(StoreOf(S))}
          /\ files = {StoreKeys[k] : k \in S}
    /\ document_status = {}
    /\ tasks = <<>>
    /\ request = Idle
    /\ response = NoResult
    /\ current_engine = None
    /\ engine_result = NoResult
    /\ deleted_keys = {}

\* what the request does with the mapping once it has it: process_chat_request
\* for endpoint "chat", search_documents for "search_chunks"
RequestEnds(endpoint, mapping, snapshot) ==
    /\ documents_dict' = mapping
    /\ chunks' = chunk_documents_for_processing(
                    mapping, IF endpoint = "chat" THEN ChatChunkSize
                             ELSE SEARCH_CHUNK_SIZE)
    /\ relevant_chunks' =
          IF endpoint = "chat"
          THEN IF mapping = <<>> THEN <<>>
               ELSE find_most_relevant_chunks(chunks', query, ChatMaxChunks).result
          ELSE IF chunks' = <<>> THEN <<>>
               ELSE find_most_relevant_chunks(chunks', query, max_chunks).result
    /\ context' = IF endpoint = "chat" /\ mapping # <<>>
                  THEN format_chunks_for_prompt(relevant_chunks') ELSE <<>>
    /\ formatted_parts' = IF endpoint = "chat" /\ mapping # <<>>
                          THEN format_parts(relevant_chunks') ELSE <<>>
    /\ IF endpoint = "chat"
       THEN \E inference \in InferenceResults :
               /\ chat_result' =
                     chat_return(inference.outcome,
                         IF mapping = <<>> THEN general_context_info(query)
                         ELSE document_context_info(chunks', relevant_chunks', context'))
               /\ response' =
                     [returned |-> TRUE, endpoint |-> endpoint,
                      snapshot |-> snapshot, failure |-> "none",
                      status |-> http_status(chat_result'.success,
                                     chat_error(inference.outcome, inference.message))]
               /\ UNCHANGED search_result
       ELSE /\ search_result' =
                  search_result_of(query, chunks', relevant_chunks', max_chunks)
            /\ response' = [returned |-> TRUE, endpoint |-> endpoint,
                            snapshot |-> snapshot, failure |-> "none",
                            status |-> 200]
            /\ UNCHANGED chat_result
    /\ pc' = "answered"
    /\ request' = Idle

\* POST /chat or POST /search-chunks arrives: documents = get_documents(),
\* and the first iteration over it begins; with project "all" an empty
\* store is answered without iterating ("if not documents")
RequestBegins ==
    \E endpoint \in {"chat", "search_chunks"} :
        /\ request = Idle
        /\ IF project = ALL_PROJECTS /\ documents = <<>>
           THEN RequestEnds(endpoint, <<>>, documents)
           ELSE /\ request' = [pc |-> "iterating", endpoint |-> endpoint,
                               pass |-> 1, index |-> 1, size |-> Len(documents),
                               seen |-> <<>>, kept |-> <<>>,
                               snapshot |-> documents]
                /\ UNCHANGED <<coreVars, response>>
        /\ UNCHANGED <<chunk_size, segments, query, max_chunks, scored_chunks,
                       branch, scores, project, documents, document_status, files,
                       tasks, current_engine, engine_result, deleted_keys>>

\* one next() of the iteration in progress
RequestNext ==
    /\ request # Idle
    /\ IF Len(documents) # request.size
       THEN \* RuntimeError: dictionary changed size during iteration
            /\ response' = [returned |-> TRUE, endpoint |-> request.endpoint,
                            snapshot |-> request.snapshot,
                            failure |-> "RuntimeError", status |-> 500]
            /\ request' = Idle
            /\ pc' = "failed"
            /\ UNCHANGED <<documents_dict, chunks, relevant_chunks, formatted_parts,
                           context, search_result, chat_result>>
       ELSE IF request.index <= Len(documents)
       THEN /\ request' = [request EXCEPT
                              !.seen = Append(@, documents[request.index]),
                              !.index = @ + 1]
            /\ UNCHANGED <<coreVars, response>>
       ELSE IF request.pass < Passes(project)
       THEN /\ request' = [request EXCEPT
                              !.pass = @ + 1, !.index = 1,
                              !.size = Len(documents),
                              !.kept = request.seen, !.seen = <<>>]
            /\ UNCHANGED <<coreVars, response>>
       ELSE RequestEnds(request.endpoint,
                        iterated_documents(project, request.kept, request.seen),
                        request.snapshot)
    /\ UNCHANGED <<chunk_size, segments, query, max_chunks, scored_chunks, branch,
                   scores, project, documents, document_status, files, tasks,
                   current_engine, engine_result, deleted_keys>>

MaxUploading == 1    \* uploads in processing while the request is served

\* POST /upload: the event loop runs it between two requests, never within
\* one (the chat and search handlers do not await)
UploadBeside ==
    /\ request = Idle
    /\ Len(tasks) < MaxUploading
    /\ Upload

NextSnapshot ==
    \/ RequestBegins
    \/ RequestNext
    \/ UploadBeside
    \/ TaskStart
    \/ TaskExtract
    \/ TaskStore
    \/ TaskProgress
    \/ TaskComplete

SpecSnapshot == InitSnapshot /\ [][NextSnapshot]_vars

----------------------------------------------------------------------------
(* chunking_service.py: two requests over one store.  Each request calls
   chunk_documents_for_processing, find_most_relevant_chunks and
   format_chunks_for_prompt with its own locals; the first request's are
   the variables of the pipeline, the second's are the fields of request.
   The functions read their arguments only and keep nothing between calls. *)

\* the stores the two requests run over
PureStores ==
    PipelineMappings
        \cup {StoreOf({1, 3}), Reversed(StoreOf({1, 3})),
              <<Document(DocName, TextCatSat), Document(StoreKeys[3], TextCatSat)>>}

InitPure ==
    /\ pc = "start"
    /\ documents \in PureStores
    /\ documents_dict = documents
    /\ chunk_size \in (0..MaxChunkSize) \cup {ChatChunkSize, SEARCH_CHUNK_SIZE}
    /\ segments = <<>>
    /\ chunks = <<>>
    /\ query \in QueryPool
    /\ max_chunks \in 0..MaxBudget
    /\ scored_chunks = <<>>
    /\ branch = "none"
    /\ relevant_chunks = <<>>
    /\ formatted_parts = <<>>
    /\ context = <<>>
    /\ search_result = NoResult
    /\ chat_result = NoResult
    /\ scores = <<>>
    /\ project = ALL_PROJECTS
    /\ document_status = {[filename |-> key, status |-> "completed", progress |-> 100] :
                             key \in dict_keys(documents)}
    /\ files = dict_keys(documents)
    /\ tasks = <<>>
    /\ request = [pc |-> "start", chunks |-> <<>>, relevant_chunks |-> <<>>,
                  context |-> <<>>]
    /\ response = NoResult
    /\ current_engine = None
    /\ engine_result = NoResult
    /\ deleted_keys = {}

\* the second request's chunk_documents_for_processing(documents, chunk_size)
ChunkDocumentsAgain ==
    /\ request.pc = "start"
    /\ request' = [request EXCEPT
                      !.chunks = chunk_documents_for_processing(documents_dict, chunk_size),
                      !.pc = "assembled"]
    /\ UNCHANGED <<coreVars, project, documents, document_status, files, tasks,
                   response, current_engine, engine_result, deleted_keys>>

\* the second request's find_most_relevant_chunks(all_chunks, query, max_chunks)
FindChunksAgain ==
    /\ request.pc = "assembled"
    /\ request' = [request EXCEPT
                      !.relevant_chunks =
                          find_most_relevant_chunks(request.chunks, query, max_chunks).result,
                      !.pc = "selected"]
    /\ UNCHANGED <<coreVars, project, documents, document_status, files, tasks,
                   response, current_engine, engine_result, deleted_keys>>

\* the second request's format_chunks_for_prompt(relevant_chunks)
FormatChunksAgain ==
    /\ request.pc = "selected"
    /\ request' = [request EXCEPT
                      !.context = format_chunks_for_prompt(request.relevant_chunks),
                      !.pc = "formatted"]
    /\ UNCHANGED <<coreVars, project, documents, document_status, files, tasks,
                   response, current_engine, engine_result, deleted_keys>>

NextPure ==
    \/ ChunkDocumentsForProcessing
    \/ FindMostRelevantChunks
    \/ FormatChunksForPrompt
    \/ ChunkDocumentsAgain
    \/ FindChunksAgain
    \/ FormatChunksAgain

SpecPure == InitPure /\ [][NextPure]_vars

----------------------------------------------------------------------------
(* Properties of the Segmenter and the Assembler, under SpecChunk *)

\* the texts of the emitted chunks, in index order
ChunkTexts == [i \in 1..Len(chunks) |-> chunks[i].content]

\* the words of a sequence of texts, read in order
RECURSIVE WordsOf(_)
WordsOf(texts) ==
    IF texts = <<>> THEN <<>> ELSE split(Head(texts)) \o WordsOf(Tail(texts))

\* length of the longest whitespace-delimited word, 0 when there is none
LongestWord(s) ==
    LET w == split(s)
    IN  IF w = <<>> THEN 0 ELSE SetMax({Len(w[i]) : i \in 1..Len(w)})

OneDocument == Len(documents_dict) = 1

\* C1 as stated: for a single document whose longest word fits in chunk_size,
\* the chunk texts concatenated with no separator are exactly the content.
C1_ReconstructionWhenWordsFit ==
    (pc = "assembled" /\ OneDocument
     /\ chunk_size >= LongestWord(documents_dict[1].content))
    => Concat(ChunkTexts) = documents_dict[1].content

\* C1 amended: for a single document whose whole content fits in chunk_size
\* (chunk_size >= len(C)), the chunk texts concatenated with no separator are
\* exactly the content.
C1_ReconstructionWhenContentFits ==
    (pc = "assembled" /\ OneDocument
     /\ chunk_size >= Len(documents_dict[1].content))
    => Concat(ChunkTexts) = documents_dict[1].content

\* a content with a paragraph break and surrounding whitespace, that fits
C1_Witness ==
    /\ pc = "assembled" /\ OneDocument
    /\ chunk_size = Len(documents_dict[1].content)
    /\ Contains(documents_dict[1].content, <<"\n", "\n">>)
    /\ strip(documents_dict[1].content) # documents_dict[1].content
    /\ Concat(ChunkTexts) = documents_dict[1].content

\* C2 as stated: the words read from the segments in order are the words of
\* the content, for every content and chunk_size.
C2_NoContentDropped ==
    pc = "segmented" => WordsOf(segments) = split(documents_dict[1].content)

\* C3: with chunk_size >= 1 every emitted chunk has length <= chunk_size,
\* unless it is a single whitespace-delimited word longer than chunk_size.
C3_SizeBound ==
    (pc = "assembled" /\ chunk_size >= 1)
    => \A i \in 1..Len(chunks) :
          \/ chunks[i].char_count <= chunk_size
          \/ /\ split(chunks[i].content) = <<chunks[i].content>>
             /\ Len(chunks[i].content) > chunk_size

\* word splitting emitted an over-long single word next to a chunk that fits
C3_Witness ==
    /\ pc = "assembled" /\ chunk_size >= 1
    /\ \E i, j \in 1..Len(chunks) :
          /\ chunks[i].char_count > chunk_size
          /\ chunks[j].char_count <= chunk_size
          /\ chunks[j].char_count > 0

----------------------------------------------------------------------------
(* Properties of the Scorer and the Selector, under SpecSelect *)

Selected == pc = "selected"

\* the documents that contributed chunks, and those that were returned
InputDocs == {chunks[i].filename : i \in 1..Len(chunks)}
ReturnedDocs == {relevant_chunks[i].filename : i \in 1..Len(relevant_chunks)}

\* position of a chunk in the input list
InputPosition(c) == CHOOSE i \in 1..Len(chunks) : chunks[i] = c

\* the score the call gave a chunk
ScoreGiven(c) == (CHOOSE e \in {scored_chunks[i] : i \in 1..Len(scored_chunks)} :
                    e.chunk = c).score

\* the highest score given to any chunk
TopScore == SetMax({scored_chunks[i].score : i \in 1..Len(scored_chunks)})

\* no chunk is returned twice for one document
OnePerDocument ==
    \A i, j \in 1..Len(relevant_chunks) :
        i # j => relevant_chunks[i].filename # relevant_chunks[j].filename

\* The score of section 4.3 for one text and query, term by term, from the
\* token sets Q and C, in units of 1/(10000 * n), n = |Q| or 1 when Q is empty.
FormulaTermsOn(content, text, q) ==
    LET Q == query_words(q)
        C == content_words(text)
        n == IF Q = {} THEN 1 ELSE Cardinality(Q)
        pairs == Cardinality({p \in Q \X C :
                                Contains(p[1], p[2]) \/ Contains(p[2], p[1])})
        present == Cardinality({w \in Q : Contains(text, w)})
    IN  [content |-> content, query |-> q,
         exact   |-> IF Q = {} THEN 0 ELSE 2 * 10000 * Cardinality(Q \cap C),
         partial |-> IF Q = {} THEN 0 ELSE Min(10000 * n, 5000 * pairs),
         phrase  |-> IF Len(split(q)) > 1 THEN n * Min(10000, 3000 * present) ELSE 0,
         length  |-> n * Min(Len(content), 2000),
         tokens  |-> C,
         overlap |-> pairs > 0 \/ present > 0 \/ Q \cap C # {}]

FormulaTerms(content, q) ==
    CHOOSE r \in {FormulaTermsOn(content, text, q) : text \in {lower(content)}} : TRUE

FormulaTable == {FormulaTerms(c, q) : c \in ContentPool, q \in QueryPool}

TermsOf(content, q) ==
    CHOOSE r \in FormulaTable : r.content = content /\ r.query = q

\* the query shares no word and no substring with any chunk
NoLexicalOverlap ==
    \A i \in 1..Len(chunks) : ~TermsOf(chunks[i].content, query).overlap

\* C4 as stated: for max_chunks >= 0 the call returns at most max_chunks chunks
\* and at most len(chunks) chunks, in the normal and in the fallback mode.
C4_MonotonicBudget ==
    (Selected /\ max_chunks >= 0)
    => /\ Len(relevant_chunks) <= max_chunks
       /\ Len(relevant_chunks) <= Len(chunks)

\* C5 as stated: when the query shares no word or substring with any chunk and
\* N documents contributed chunks, the returned chunks come from
\* min(max_chunks, N) distinct documents, and no document is returned twice
\* while another has contributed none, whatever the chunk lengths.
C5_FallbackDiversity ==
    (Selected /\ chunks # <<>> /\ NoLexicalOverlap)
    => /\ Cardinality(ReturnedDocs) = Min(max_chunks, Cardinality(InputDocs))
       /\ (~OnePerDocument => ReturnedDocs = InputDocs)

\* C6 as stated: when the query tokenizes to the empty set, every chunk's
\* exact, partial and phrase scores are 0, its score is the length bonus, and
\* the selection takes the fallback path, at most one chunk per document.
C6_DegenerateQuery ==
    (Selected /\ chunks # <<>> /\ query_words(query) = {})
    => /\ \A i \in 1..Len(scored_chunks) :
             LET t == TermsOf(scored_chunks[i].chunk.content, query)
             IN  /\ t.exact = 0 /\ t.partial = 0 /\ t.phrase = 0
                 /\ scored_chunks[i].score = t.length
       /\ branch = "fallback"
       /\ OnePerDocument

\* C7: the fallback selection is used if and only if the highest score is
\* strictly below 0.1; a top score of exactly 0.1 selects in normal mode.
C7_FallbackThreshold ==
    (Selected /\ chunks # <<>>)
    => /\ (branch = "fallback") <=> (10 * TopScore < 10000 * Units(query))
       /\ (branch = "normal") <=> (10 * TopScore >= 10000 * Units(query))
       /\ (branch = "fallback") => OnePerDocument

\* the top score is exactly 0.1 and the normal selection returned two chunks
\* of one document
C7_Witness ==
    /\ Selected
    /\ chunks # <<>>
    /\ 10 * TopScore = 10000 * Units(query)
    /\ branch = "normal"
    /\ ~OnePerDocument

\* C8: in normal mode the result is exactly the first max_chunks entries of
\* the sorted list: scores do not increase along it, every returned chunk
\* scores at least as high as every chunk not returned, and one document may
\* contribute several chunks.
C8_NormalSelection ==
    (Selected /\ branch = "normal")
    => /\ Len(relevant_chunks) = Min(max_chunks, Len(chunks))
       /\ \A i \in 1..Len(relevant_chunks) :
             relevant_chunks[i] = scored_chunks[i].chunk
       /\ \A i, j \in 1..Len(relevant_chunks) :
             i < j => ScoreGiven(relevant_chunks[i]) >= ScoreGiven(relevant_chunks[j])
       /\ \A i \in 1..Len(relevant_chunks) : \A k \in 1..Len(chunks) :
             (\A j \in 1..Len(relevant_chunks) : relevant_chunks[j] # chunks[k])
             => ScoreGiven(relevant_chunks[i]) >= ScoreGiven(chunks[k])

\* normal mode cut the list, kept two chunks of one document and left out a
\* lower-scoring chunk of another document
C8_Witness ==
    /\ Selected /\ branch = "normal"
    /\ Len(relevant_chunks) = max_chunks
    /\ max_chunks < Len(chunks)
    /\ ~OnePerDocument
    /\ \E k \in 1..Len(chunks) :
          /\ chunks[k].filename \notin ReturnedDocs
          /\ ScoreGiven(chunks[k]) < ScoreGiven(relevant_chunks[Len(relevant_chunks)])

\* C9: of two chunks with the same score, the one that is first in the input
\* list is first in the sorted list, and first in the result in both modes.
C9_StableTieBreak ==
    Selected
    => /\ \A i, j \in 1..Len(scored_chunks) :
             (i < j /\ scored_chunks[i].score = scored_chunks[j].score)
             => InputPosition(scored_chunks[i].chunk)
                  < InputPosition(scored_chunks[j].chunk)
       /\ \A i, j \in 1..Len(relevant_chunks) :
             (i < j /\ ScoreGiven(relevant_chunks[i]) = ScoreGiven(relevant_chunks[j]))
             => InputPosition(relevant_chunks[i]) < InputPosition(relevant_chunks[j])

\* the fallback selection returned two chunks of equal score, and a higher
\* scoring chunk came later in the input
C9_Witness ==
    /\ Selected /\ branch = "fallback"
    /\ \E i, j \in 1..Len(relevant_chunks) :
          /\ i < j
          /\ ScoreGiven(relevant_chunks[i]) = ScoreGiven(relevant_chunks[j])
    /\ \E i, j \in 1..Len(chunks) :
          i < j /\ ScoreGiven(chunks[i]) < ScoreGiven(chunks[j])

QueryTokens == query_words(query)
ChunkTokens == UNION {TermsOf(chunks[i].content, query).tokens : i \in 1..Len(chunks)}

\* a token as the claim describes it: case-folded, more than 2 characters,
\* no character of TokenPunct at either end
WellFormedToken(w) ==
    /\ Len(w) > 2
    /\ lower(w) = w
    /\ w[1] \notin TokenPunct
    /\ w[Len(w)] \notin TokenPunct

\* C11 as stated: every element of Q and of each chunk token set C is a
\* case-folded word of more than 2 characters with no leading or trailing
\* punctuation; neither set holds the empty string or a 1- or 2-character token.
C11_Tokenization ==
    (Selected /\ chunks # <<>>)
    => \A w \in QueryTokens \cup ChunkTokens : WellFormedToken(w)

----------------------------------------------------------------------------
(* Further properties of the Segmenter and the Assembler, under SpecChunk *)

\* the content has no blank line and no sentence terminator followed by whitespace
NoBlankLine(s) == ~Contains(s, <<"\n", "\n">>)
NoSentenceEnd(s) == \A i \in 1..Len(s) : SentenceEndMatch(s, i) = 0

\* ceil(a / b)
CeilDiv(a, b) == (a + b - 1) \div b

\* C12 as stated: a content longer than chunk_size with no blank line and no
\* sentence terminator followed by whitespace is split by words into at least
\* ceil(len(content) / chunk_size) chunks, each carrying that chunk count.
C12_WordSplitFallThrough ==
    (/\ pc = "assembled" /\ OneDocument /\ chunk_size >= 1
     /\ Len(documents_dict[1].content) > chunk_size
     /\ NoBlankLine(documents_dict[1].content)
     /\ NoSentenceEnd(documents_dict[1].content))
    => /\ Len(chunks) >= CeilDiv(Len(documents_dict[1].content), chunk_size)
       /\ \A i \in 1..Len(chunks) : chunks[i].total_chunks = Len(chunks)

\* positions in the output of the chunks of the document named filename
ChunksOf(filename) == {i \in 1..Len(chunks) : chunks[i].filename = filename}

\* C13: a document whose content is no longer than chunk_size, the empty
\* content included, gets exactly one chunk, with chunk_index 1, total_chunks 1
\* and its content unchanged; the Segmenter returns the content as one segment.
C13_SmallDocuments ==
    /\ pc = "assembled"
       => \A d \in 1..Len(documents_dict) :
             Len(documents_dict[d].content) <= chunk_size
             => /\ Cardinality(ChunksOf(documents_dict[d].filename)) = 1
                /\ \A i \in ChunksOf(documents_dict[d].filename) :
                      /\ chunks[i].chunk_index = 1
                      /\ chunks[i].total_chunks = 1
                      /\ chunks[i].content = documents_dict[d].content
    /\ (pc = "segmented" /\ Len(documents_dict[1].content) <= chunk_size)
       => segments = <<documents_dict[1].content>>

\* an empty document was assembled next to one that was split in two
C13_Witness ==
    /\ pc = "assembled"
    /\ \E d, e \in 1..Len(documents_dict) :
          /\ documents_dict[d].content = <<>>
          /\ \E i \in ChunksOf(documents_dict[d].filename) : chunks[i].content = <<>>
          /\ Len(documents_dict[e].content) > chunk_size
          /\ Cardinality(ChunksOf(documents_dict[e].filename)) = 2

\* C14: the chunks of each document are contiguous in the output, numbered
\* 1, 2, ..., n in order, each with total_chunks = n, and char_count is the
\* length of the chunk's content.
C14_ChunkMetadata ==
    pc = "assembled"
    => \A i \in 1..Len(chunks) :
          /\ ChunksOf(chunks[i].filename)
                = SetMin(ChunksOf(chunks[i].filename))..SetMax(ChunksOf(chunks[i].filename))
          /\ chunks[i].chunk_index = i - SetMin(ChunksOf(chunks[i].filename)) + 1
          /\ chunks[i].total_chunks = Cardinality(ChunksOf(chunks[i].filename))
          /\ chunks[i].char_count = Len(chunks[i].content)

\* two documents were each split into two chunks
C14_Witness ==
    /\ pc = "assembled"
    /\ Len(documents_dict) = 2
    /\ \A d \in 1..2 : Cardinality(ChunksOf(documents_dict[d].filename)) = 2

----------------------------------------------------------------------------
(* Properties of the Formatter, under SpecFormat *)

Formatted == pc = "formatted"

\* the positions at which sub occurs in s
Occurs(sub, s) ==
    {i \in 1..(Len(s) - Len(sub) + 1) : SubSeq(s, i, i + Len(sub) - 1) = sub}

\* the rule stands somewhere between block k and block k + 1 of the output
RuleBetween(k) ==
    \E i \in Occurs(formatted_parts[k], context) :
    \E j \in Occurs(Rule, context) :
    \E l \in Occurs(formatted_parts[k + 1], context) :
        i + Len(formatted_parts[k]) <= j /\ j + RuleWidth <= l

\* C15 as stated: for two or more chunks the rule of '=' characters stands
\* between every two consecutive chunk blocks (len(chunks) - 1 separators).
C15_SeparatorBetweenBlocks ==
    (Formatted /\ Len(relevant_chunks) >= 2)
    => \A k \in 1..(Len(relevant_chunks) - 1) : RuleBetween(k)

\* C16: the formatter returns "No relevant document content found." for the
\* empty list, and for no non-empty list, whatever the chunk texts.
C16_Sentinel ==
    Formatted
    => /\ relevant_chunks = <<>> => context = NoContentFound
       /\ relevant_chunks # <<>> => context # NoContentFound

\* a single chunk whose text is the sentinel itself was formatted
C16_Witness ==
    /\ Formatted
    /\ Len(relevant_chunks) = 1
    /\ relevant_chunks[1].content = NoContentFound
    /\ Contains(context, NoContentFound)

\* the header line and the text of a rendered block
FirstNewline(part) == SetMin({i \in 1..Len(part) : part[i] = "\n"})
HeaderOf(part) == SubSeq(part, 1, FirstNewline(part) - 1)
TextOf(part) == SubSeq(part, FirstNewline(part) + 1, Len(part))

\* the int a run of decimal digits denotes
IsNumber(ds) ==
    ds # <<>> /\ \A i \in 1..Len(ds) : \E d \in 1..10 : DecimalDigits[d] = ds[i]
RECURSIVE DecimalValue(_)
DecimalValue(ds) ==
    IF ds = <<>> THEN 0
    ELSE 10 * DecimalValue(SubSeq(ds, 1, Len(ds) - 1))
         + (CHOOSE d \in 1..10 : DecimalDigits[d] = ds[Len(ds)]) - 1

\* the number n is written in h from position a, up to a position that the
\* text after follows
NumberAt(h, a, n, after) ==
    \E b \in a..Len(h) :
        /\ IsNumber(SubSeq(h, a, b))
        /\ DecimalValue(SubSeq(h, a, b)) = n
        /\ SubSeq(h, b + 1, b + Len(after)) = after

\* the header holds "(<n> chars)"
HasCharCount(h, n) ==
    \E a \in 2..Len(h) : h[a - 1] = "(" /\ NumberAt(h, a, n, <<" ", "c", "h", "a", "r", "s", ")">>)

\* the header holds "Part <i>/<total>]"
HasPartMarker(h, i, total) ==
    \E a \in Occurs(<<"P", "a", "r", "t", " ">>, h) :
    \E b \in Occurs(<<"/">>, h) :
        /\ NumberAt(h, a + 5, i, <<"/">>)
        /\ NumberAt(h, b + 1, total, <<"]">>)
        /\ a < b

\* C17: every chunk is rendered as a header line holding its document key and
\* its character count, and a 'Part i/total' marker exactly when
\* total_chunks > 1, followed on the next line by the chunk text; the blocks
\* stand in the output in input order.
C17_Header ==
    (Formatted /\ relevant_chunks # <<>>)
    => /\ Len(formatted_parts) = Len(relevant_chunks)
       /\ \A k \in 1..Len(relevant_chunks) :
             /\ Contains(HeaderOf(formatted_parts[k]), relevant_chunks[k].filename)
             /\ HasCharCount(HeaderOf(formatted_parts[k]), relevant_chunks[k].char_count)
             /\ Contains(HeaderOf(formatted_parts[k]), <<"P", "a", "r", "t", " ">>)
                   <=> relevant_chunks[k].total_chunks > 1
             /\ relevant_chunks[k].total_chunks > 1
                   => HasPartMarker(HeaderOf(formatted_parts[k]),
                                    relevant_chunks[k].chunk_index,
                                    relevant_chunks[k].total_chunks)
             /\ TextOf(formatted_parts[k]) = relevant_chunks[k].content
       /\ \A k \in 1..(Len(relevant_chunks) - 1) :
             \E i \in Occurs(formatted_parts[k], context) :
             \E l \in Occurs(formatted_parts[k + 1], context) :
                 i + Len(formatted_parts[k]) <= l

\* a one-chunk document and both parts of a two-chunk document were rendered
C17_Witness ==
    /\ Formatted
    /\ Len(relevant_chunks) = 3
    /\ relevant_chunks[1].total_chunks = 1
    /\ relevant_chunks[2].total_chunks = 2
    /\ relevant_chunks[3].chunk_index = 2
    /\ relevant_chunks[3].content # <<>>

----------------------------------------------------------------------------
(* Properties of the operations on empty input, under SpecPipeline *)

\* C18: on an empty mapping the Assembler returns the empty list for every
\* chunk_size; on an empty chunk list find_most_relevant_chunks returns the
\* empty list; on an empty mapping search_documents returns no chunks with
\* total_found = 0 and total_available = 0.
C18_EmptyInput ==
    /\ (pc = "assembled" /\ documents_dict = <<>>) => chunks = <<>>
    /\ (pc = "selected" /\ chunks = <<>>)
       => relevant_chunks = <<>> /\ branch = "empty"
    /\ (pc = "searched" /\ documents_dict = <<>>)
       => /\ search_result.chunks = <<>>
          /\ search_result.total_found = 0
          /\ search_result.total_available = 0

\* the empty mapping was assembled at a chunk_size above 0 and the empty chunk
\* list was then searched with a budget above 0
C18_Witness ==
    /\ pc = "selected"
    /\ documents_dict = <<>>
    /\ chunk_size > 0
    /\ max_chunks > 0
    /\ chunks = <<>>
    /\ relevant_chunks = <<>>

----------------------------------------------------------------------------
(* Properties of search_documents and process_chat_request, under SpecSearch *)

\* the chunks the Assembler produces at the search chunk size
SearchChunks == chunk_documents_for_processing(documents_dict, SEARCH_CHUNK_SIZE)

\* the result entry carries the metadata and the whole content of the chunk
CarriesChunk(entry, chunk) ==
    /\ entry.filename = chunk.filename
    /\ entry.chunk_index = chunk.chunk_index
    /\ entry.total_chunks = chunk.total_chunks
    /\ entry.char_count = chunk.char_count
    /\ entry.full_content = chunk.content

\* C19: search_documents returns total_found equal to the number of result
\* entries, total_available equal to the number of chunks the Assembler
\* produces at the search chunk size, total_found <= total_available, and every
\* entry carries the metadata and the full content of one assembled chunk.
C19_SearchCounts ==
    pc = "searched"
    => /\ search_result.total_found = Len(search_result.chunks)
       /\ search_result.total_available = Len(SearchChunks)
       /\ search_result.total_found <= search_result.total_available
       /\ \A k \in 1..Len(search_result.chunks) :
             \E i \in 1..Len(SearchChunks) :
                 CarriesChunk(search_result.chunks[k], SearchChunks[i])

\* a search over a two-chunk document and another document returned the second
\* chunk of the former, fewer chunks than were available, one of them with a
\* shortened preview
C19_Witness ==
    /\ pc = "searched"
    /\ Len(documents_dict) = 2
    /\ search_result.total_found = 2
    /\ search_result.total_available = 3
    /\ \E k \in 1..2 : search_result.chunks[k].chunk_index = 2
    /\ \E k \in 1..2 : search_result.chunks[k].preview # search_result.chunks[k].full_content

\* C20 as stated: process_chat_request reports chunks_processed equal to the
\* number of chunks rendered into the context string, total_chunks_available
\* equal to the number of chunks assembled from the documents, context_length
\* equal to the length of the context string, and chunks_processed = 0 exactly
\* when there are no documents or the context is the no-content text; with no
\* documents no context string is built and its length is 0.
C20_TruthfulCounts ==
    pc = "chatted"
    => /\ chat_result.chunks_processed = Len(formatted_parts)
       /\ chat_result.total_chunks_available = Len(chunks)
       /\ chat_result.context_length = Len(context)
       /\ chat_result.chunks_processed = 0
             <=> (documents_dict = <<>> \/ context = NoContentFound)
\* C25: each of the four score components is non-negative, the exact
\* component is at most 2.0, the partial and phrase components at most 1.0,
\* the length bonus at most 0.2, and the final score is between 0 and 4.2.
\* The components are held in units of 1/(10000 * n), n = Units(query).
C25_ScoreRange ==
    pc = "scored"
    => LET n == Units(query)
       IN  /\ \A k \in 1..4 : scores[k] >= 0
           /\ scores[1] <= 20000 * n
           /\ scores[2] <= 10000 * n
           /\ scores[3] <= 10000 * n
           /\ scores[4] <= 2000 * n
           /\ scored_chunks[1].score >= 0
           /\ scored_chunks[1].score <= 42000 * n

\* a chunk scored 4.2: every component at its bound, the partial and phrase
\* sums having gone past 1.0 before the min
C25_Witness ==
    /\ pc = "scored"
    /\ scores = <<20000 * Units(query), 10000 * Units(query),
                  10000 * Units(query), 2000 * Units(query)>>
    /\ partial_term_uncapped(query_words(query),
                             content_words(lower(chunks[1].content)))
           > 10000 * Units(query)
    /\ Cardinality(query_words(query)) * PhraseIncrement > ScoreScale

\* the words of the chunks of split_by_words, chunk after chunk
RunsOfWords == Concat([i \in 1..Len(segments) |-> split(segments[i])])

\* C26: for every text and max_size, also one smaller than the longest word,
\* each chunk of split_by_words is the single-space join of a non-empty run
\* of the text's words, and the runs in order are the words of the text, each
\* once: no word is split across chunks.
C26_WordAtomicity ==
    pc = "words"
    => /\ \A i \in 1..Len(segments) :
             /\ split(segments[i]) # <<>>
             /\ segments[i] = join(<<" ">>, split(segments[i]))
       /\ RunsOfWords = split(documents_dict[1].content)

\* a text with a word longer than max_size and another word: the long word
\* is a chunk of its own
C26_Witness ==
    /\ pc = "words"
    /\ Len(split(documents_dict[1].content)) >= 2
    /\ \E w \in {split(documents_dict[1].content)[k] :
                    k \in 1..Len(split(documents_dict[1].content))} :
          /\ Len(w) > chunk_size
          /\ \E i \in 1..Len(segments) : segments[i] = w
    /\ RunsOfWords = split(documents_dict[1].content)

\* C28 as stated: for a non-empty mapping and chunk_size >= 1, every key of
\* the mapping is the filename of at least one chunk of the output, so the
\* output has at least as many chunks as the mapping has documents.
C28_NoDocumentDropped ==
    (pc = "assembled" /\ documents_dict # <<>> /\ chunk_size >= 1)
    => /\ \A d \in 1..Len(documents_dict) : ChunksOf(documents_dict[d].filename) # {}
       /\ Len(chunks) >= Len(documents_dict)

\* C29: when set_engine(model_name) returns success = False, current_engine
\* is what it was before the call; when it returns success = True,
\* current_engine is model_name and model_name was in the local model list.
C29_EngineAllOrNothing ==
    engine_result.returned
    => /\ ~engine_result.success => current_engine = engine_result.engine_before
       /\ engine_result.success
             => /\ current_engine = engine_result.model_name
                /\ engine_result.model_name \in engine_result.local_models

\* a call that found the model installed, failed its verification, and left
\* the engine that was active before
C29_Witness ==
    /\ engine_result.returned
    /\ ~engine_result.success
    /\ engine_result.model_name \in engine_result.local_models
    /\ engine_result.engine_before \notin {None, engine_result.model_name}
    /\ current_engine = engine_result.engine_before

\* C21 as stated: a chat request ends with status 504 if and only if the
\* inference request timed out; every other inference failure, whatever its
\* message, ends with status 500.
C21_DistinguishableTimeout ==
    pc = "chatted"
    => /\ (response.status = 504) <=> (response.inference = "timeout")
       /\ response.inference \in {"request_exception", "exception"}
             => response.status = 500

\* the keys of the store the request may use under project name
KeysOfProject(name) ==
    {key \in dict_keys(documents) : startswith(key, name \o <<"/">>)}
    \cup {key \in dict_keys(documents) :
            ~has_slash(key) /\ (name \o <<"/">> \o key) \notin dict_keys(documents)}

\* C27: for a project P other than "all" and "global" the documents used are
\* exactly the keys with prefix "P/" and the global keys whose filename is not
\* stored as "P/<filename>", each with its content in the store; for "global"
\* exactly the keys without "/"; no key of another project is used.
C27_ProjectFiltering ==
    pc \in {"chatted", "searched"}
    => /\ project \notin {ALL_PROJECTS, DEFAULT_PROJECT_NAME}
             => dict_keys(documents_dict) = KeysOfProject(project)
       /\ project = DEFAULT_PROJECT_NAME
             => dict_keys(documents_dict) = {key \in dict_keys(documents) : ~has_slash(key)}
       /\ project # ALL_PROJECTS
             => \A key \in dict_keys(documents_dict) :
                   /\ has_slash(key) => startswith(key, project \o <<"/">>)
                   /\ dict_get(documents_dict, key) = dict_get(documents, key)
       /\ Len(documents_dict) = Cardinality(dict_keys(documents_dict))

\* a request of project p over a store holding a.txt, p/a.txt, b.txt and
\* documents of q and pp: p/a.txt and b.txt are used, a.txt is not
C27_Witness ==
    /\ pc \in {"chatted", "searched"}
    /\ project = <<"p">>
    /\ dict_keys(documents) = {StoreKeys[k] : k \in 1..Len(StoreKeys)}
    /\ StoreKeys[1] \notin dict_keys(documents_dict)
    /\ {StoreKeys[2], StoreKeys[3]} \subseteq dict_keys(documents_dict)
    /\ dict_keys(documents_dict) = KeysOfProject(project)

----------------------------------------------------------------------------
(* Properties of the life of a document, under SpecLifecycle *)

\* C24: a key whose deletion has completed, with no upload of it since, is
\* absent from the store, whatever the background tasks still do
C24_DocumentDeletion ==
    \A key \in deleted_keys : key \notin dict_keys(documents)

\* C30: a key whose status is "completed" has progress 100 and is present
\* in the store
C30_StatusStoreConsistency ==
    \A r \in document_status :
        r.status = "completed" =>
            /\ r.progress = 100
            /\ r.filename \in dict_keys(documents)

----------------------------------------------------------------------------
(* Properties of a request beside the background tasks, under SpecSnapshot *)

\* C22: a chat or search request that has been answered did not fail on the
\* store changing under it, and the mapping it worked on is the filter of
\* the store as it was when the request began
C22_ReadOnlySnapshot ==
    (response.returned /\ response.endpoint \in {"chat", "search_chunks"}) =>
        /\ response.failure # "RuntimeError"
        /\ documents_dict = filtered_documents(response.snapshot, project)

----------------------------------------------------------------------------
(* Properties of two requests over one store, under SpecPure *)

\* the two requests have the same results wherever both have got to
SameOutputs ==
    /\ (pc # "start" /\ request.pc # "start") => request.chunks = chunks
    /\ (pc \in {"selected", "formatted"} /\ request.pc \in {"selected", "formatted"})
          => request.relevant_chunks = relevant_chunks
    /\ (pc = "formatted" /\ request.pc = "formatted") => request.context = context

\* a call leaves the store, the status record and the arguments as they were
ArgumentsKept ==
    /\ documents' = documents
    /\ document_status' = document_status
    /\ documents_dict' = documents_dict
    /\ chunk_size' = chunk_size
    /\ query' = query
    /\ max_chunks' = max_chunks
    /\ pc # "start" => chunks' = chunks
    /\ pc \in {"selected", "formatted"} => relevant_chunks' = relevant_chunks
    /\ request.pc # "start" => request'.chunks = request.chunks
    /\ request.pc \in {"selected", "formatted"}
          => request'.relevant_chunks = request.relevant_chunks

====
